---- MODULE Spec2Model ----
(***************************************************************************)
(* Model of the marketplace contract `Sistema` (src/lib.rs): users,        *)
(* products, listings (publicaciones) and purchase orders (ordenes), with  *)
(* one action per #[ink(message)].  Every message runs to completion, so   *)
(* each action is one atomic step.  Vec indices are 0-based in the source  *)
(* and 1-based here (see Get).                                             *)
(*                                                                         *)
(* Opaque payload (nombre, apellido, email, descripcion, categoria) is not *)
(* read by any operation and is left out of the records.                   *)
(***************************************************************************)
EXTENDS Integers, Sequences, FiniteSets, TLC

------------------------------------------------------------------------------
(* Bounds of the model *)

\* Accounts that call the contract (AccountId values).
Principals == {"alice", "bob", "charlie"}

\* Option<AccountId>::None
NoAccount == "None"

\* Rol
Roles == {"Comprador", "Vendedor", "Ambos"}

\* Largest number of products / listings / orders the model creates.
MaxProductos == 1
MaxPublicaciones == 2
MaxOrdenes == 1

\* Longest item list passed to generar_orden_compra, largest quantity asked.
MaxItems == 2
MaxCant == 2

\* Widths of the integer types, scaled down: u32 (precio, stock, monto,
\* dinero), usize (Vec index) and u128 (ids).  Overflow and truncation
\* happen at the scaled width exactly as they do at the real one.
U32_BITS == 3
USIZE_BITS == 2
U128_BITS == 3

U32_MAX == 2^U32_BITS - 1
USIZE_MAX == 2^USIZE_BITS - 1
U128_MAX == 2^U128_BITS - 1

\* Inputs of the messages.
Precios == {1, U32_MAX - 1}
Stocks == 0..MaxCant
Cantidades == 0..MaxCant
Fondos == {1, U32_MAX}
IdsProducto == 0..MaxProductos
IdsPublicacion == 0..MaxPublicaciones
\* order ids: the created ones, one past them, and one that differs from
\* id 0 only above the usize width
IdsOrden == (0..MaxOrdenes) \cup {USIZE_MAX + 1}

Items == IdsPublicacion \X Cantidades
RECURSIVE SeqsUpTo(_, _)
SeqsUpTo(S, n) ==
    IF n = 0 THEN {<<>>}
    ELSE LET shorter == SeqsUpTo(S, n - 1)
         IN  shorter \cup {Append(s, x) : s \in {t \in shorter : Len(t) = n - 1}, x \in S}
Listas == SeqsUpTo(Items, MaxItems)

------------------------------------------------------------------------------
(* State *)

VARIABLES
    usuarios,                \* Mapping<AccountId, Usuario>
    publicaciones,           \* Vec<Publicacion>
    productos,               \* Mapping<u128, Producto> (the set of stored keys)
    ordenes,                 \* Vec<OrdenCompra>
    proximo_id_publicacion,  \* u128
    proximo_id_producto,     \* u128
    proximo_id_orden,        \* u128
    ret                      \* the last message: name, caller, order id, result
                             \* (Ok or the error) and the value returned with Ok

vars == <<usuarios, publicaciones, productos, ordenes,
          proximo_id_publicacion, proximo_id_producto, proximo_id_orden, ret>>

\* Sistema::new()
Init ==
    /\ usuarios = [p \in {} |-> 0]
    /\ publicaciones = <<>>
    /\ productos = {}
    /\ ordenes = <<>>
    /\ proximo_id_publicacion = 0
    /\ proximo_id_producto = 0
    /\ proximo_id_orden = 0
    /\ ret = [op |-> "new", caller |-> NoAccount, id |-> 0, res |-> "Ok", valor |-> <<>>]

------------------------------------------------------------------------------
(* Helpers *)

\* Vec::get(i) for an index in range
Get(s, i) == s[i + 1]

\* `x as usize` for a u128 x
AsUsize(x) == x % (USIZE_MAX + 1)

\* Option<u32>::None / the result of a failed checked operation
None == -1

\* Variant of checked_mul: the product wraps around at the width of u32.
mut_wrapping_mul(a, b) == (a * b) % (U32_MAX + 1)

\* u32::checked_mul, u32::checked_add, u32::checked_sub
checked_mul(a, b) == IF a * b > U32_MAX THEN None ELSE a * b
checked_add(a, b) == IF a + b > U32_MAX THEN None ELSE a + b
checked_sub(a, b) == IF a < b THEN None ELSE a - b

\* self.publicaciones.iter().position(|x| x.id_publicacion == id), 1-based;
\* 0 when no listing has that id
Posicion(pubs, id) ==
    LET hits == {i \in 1..Len(pubs) : pubs[i].id_publicacion = id}
    IN  IF hits = {} THEN 0 ELSE CHOOSE i \in hits : \A j \in hits : i <= j

------------------------------------------------------------------------------
(* Users *)

\* Result<bool, ErrorSistema> is one of "Ok(true)", "Ok(false)" or the error.
_existe_usuario(us, id) ==
    IF id \in DOMAIN us THEN "Ok(true)" ELSE "UsuarioNoExiste"

\* Variant of _es_vendedor: only the role Vendedor counts.
mut_es_vendedor_sin_ambos(us, id) ==
    IF _existe_usuario(us, id) # "Ok(true)" THEN "UsuarioNoExiste"
    ELSE IF us[id].rol = "Vendedor" THEN "Ok(true)" ELSE "Ok(false)"

_es_vendedor(us, id) ==
    IF _existe_usuario(us, id) # "Ok(true)" THEN "UsuarioNoExiste"
    ELSE IF us[id].rol \in {"Vendedor", "Ambos"} THEN "Ok(true)" ELSE "Ok(false)"

_es_comprador(us, id) ==
    IF _existe_usuario(us, id) # "Ok(true)" THEN "UsuarioNoExiste"
    ELSE IF us[id].rol \in {"Comprador", "Ambos"} THEN "Ok(true)" ELSE "Ok(false)"

\* Mapping::insert
Insert(us, id, u) == [p \in DOMAIN us \cup {id} |-> IF p = id THEN u ELSE us[p]]

\* Variant of _registrar_usuario: a second registration replaces the record.
mut_registrar_pisa(us, rol, id) ==
    [res |-> IF id \in DOMAIN us THEN "UsuarioYaRegistrado" ELSE "Ok",
     usuarios |-> Insert(us, id, [rol |-> rol, publicaciones |-> <<>>, ordenes |-> <<>>])]

\* _registrar_usuario: [res, usuarios]
_registrar_usuario(us, rol, id) ==
    IF id \in DOMAIN us
    THEN [res |-> "UsuarioYaRegistrado", usuarios |-> us]
    ELSE [res |-> "Ok",
          usuarios |-> Insert(us, id, [rol |-> rol, publicaciones |-> <<>>, ordenes |-> <<>>])]

\* Variants of Usuario::agregar_rol: a user who holds both roles is not
\* refused / the requested role replaces the current one.
mut_agregar_rol_desde_ambos(actual, rol) ==
    IF actual = rol
    THEN [res |-> "RolYaEnUso", rol |-> actual]
    ELSE [res |-> "Ok",
          rol |-> IF \/ (actual = "Comprador" /\ rol = "Vendedor")
                     \/ (actual = "Vendedor" /\ rol = "Comprador")
                  THEN "Ambos" ELSE rol]

mut_agregar_rol_reemplaza(actual, rol) ==
    IF actual = rol \/ actual = "Ambos"
    THEN [res |-> "RolYaEnUso", rol |-> actual]
    ELSE [res |-> "Ok", rol |-> rol]

\* Usuario::agregar_rol: [res, rol]
Usuario_agregar_rol(actual, rol) ==
    IF actual = rol \/ actual = "Ambos"
    THEN [res |-> "RolYaEnUso", rol |-> actual]
    ELSE [res |-> "Ok",
          rol |-> IF \/ (actual = "Comprador" /\ rol = "Vendedor")
                     \/ (actual = "Vendedor" /\ rol = "Comprador")
                  THEN "Ambos" ELSE rol]

\* _agregar_rol: [res, usuarios]
_agregar_rol(us, rol, id) ==
    IF id \in DOMAIN us
    THEN LET r == Usuario_agregar_rol(us[id].rol, rol)
         IN  IF r.res # "Ok" THEN [res |-> r.res, usuarios |-> us]
             ELSE [res |-> "Ok", usuarios |-> Insert(us, id, [us[id] EXCEPT !.rol = r.rol])]
    ELSE [res |-> "UsuarioNoExiste", usuarios |-> us]

------------------------------------------------------------------------------
(* Products and listings *)

existe_producto(proximo, id) == proximo > id

\* Variant of the id allocation: at the maximum the counter wraps to zero.
mut_generar_id_vuelta(proximo, lleno) ==
    [res |-> "Ok", id |-> proximo, proximo |-> (proximo + 1) % (U128_MAX + 1)]

\* generar_id_producto / generar_id_publicacion / generar_id_orden share one
\* shape: [res, id, proximo]

generar_id(proximo, lleno) ==
    IF proximo = U128_MAX
    THEN [res |-> lleno, id |-> proximo, proximo |-> proximo]
    ELSE [res |-> "Ok", id |-> proximo, proximo |-> proximo + 1]

generar_id_producto(proximo) == generar_id(proximo, "ProductosLleno")
\* Variant of generar_id_publicacion: the counter is not advanced.
mut_generar_id_publicacion_sin_avance(proximo) ==
    [generar_id(proximo, "PublicacionesLleno") EXCEPT !.proximo = proximo]

generar_id_publicacion(proximo) == generar_id(proximo, "PublicacionesLleno")
generar_id_orden(proximo) == generar_id(proximo, "PublicacionesLleno")

\* Variants of nuevo_producto: the role of the caller is not looked at / the
\* id is allocated and the product is not stored.
mut_nuevo_producto(us, prods, proximo, caller, con_rol, guarda) ==
    LET same == [res |-> "", id |-> 0, productos |-> prods, proximo |-> proximo]
        g == generar_id_producto(proximo)
    IN  IF _existe_usuario(us, caller) # "Ok(true)" THEN [same EXCEPT !.res = "UsuarioNoExiste"]
        ELSE IF con_rol /\ _es_vendedor(us, caller) = "Ok(false)"
             THEN [same EXCEPT !.res = "UsuarioNoEsVendedor"]
        ELSE IF g.res # "Ok" THEN [same EXCEPT !.res = g.res]
        ELSE [res |-> "Ok", id |-> g.id,
              productos |-> IF guarda THEN prods \cup {g.id} ELSE prods,
              proximo |-> g.proximo]

mut_nuevo_producto_sin_rol(us, prods, proximo, caller) ==
    mut_nuevo_producto(us, prods, proximo, caller, FALSE, TRUE)
mut_nuevo_producto_sin_guardar(us, prods, proximo, caller) ==
    mut_nuevo_producto(us, prods, proximo, caller, TRUE, FALSE)

\* nuevo_producto: [res, id, productos, proximo]
nuevo_producto(us, prods, proximo, caller) ==
    LET same == [res |-> "", id |-> 0, productos |-> prods, proximo |-> proximo]
        g == generar_id_producto(proximo)
    IN  IF _existe_usuario(us, caller) # "Ok(true)" THEN [same EXCEPT !.res = "UsuarioNoExiste"]
        ELSE IF _es_vendedor(us, caller) = "Ok(false)" THEN [same EXCEPT !.res = "UsuarioNoEsVendedor"]
        ELSE IF g.res # "Ok" THEN [same EXCEPT !.res = g.res]
        ELSE [res |-> "Ok", id |-> g.id, productos |-> prods \cup {g.id}, proximo |-> g.proximo]

\* Variant of _crear_publicacion: the stock is checked before the product.
mut_crear_stock_primero(us, pubs, proximo_prod, proximo, id_producto, precio, stock, caller) ==
    LET same == [res |-> "", usuarios |-> us, publicaciones |-> pubs, proximo |-> proximo]
        g == generar_id_publicacion(proximo)
    IN  IF _es_vendedor(us, caller) = "Ok(false)" THEN [same EXCEPT !.res = "UsuarioNoEsVendedor"]
        ELSE IF stock = 0 THEN [same EXCEPT !.res = "StockInsuficiente"]
        ELSE IF ~existe_producto(proximo_prod, id_producto) THEN [same EXCEPT !.res = "ProductoInvalido"]
        ELSE IF caller \notin DOMAIN us THEN [same EXCEPT !.res = "panic"]
        ELSE IF g.res # "Ok" THEN [same EXCEPT !.res = g.res]
        ELSE [res |-> "Ok",
              usuarios |-> Insert(us, caller,
                  [us[caller] EXCEPT !.publicaciones = Append(@, g.id)]),
              publicaciones |-> Append(pubs,
                  [id_publicacion |-> g.id, id_producto |-> id_producto,
                   id_publicador |-> caller, precio |-> precio, stock |-> stock,
                   activa |-> TRUE]),
              proximo |-> g.proximo]

\* Variant of _crear_publicacion: the id of the listing is not pushed to the
\* publisher's publicaciones.
mut_crear_sin_referencia(us, pubs, proximo_prod, proximo, id_producto, precio, stock, caller) ==
    LET same == [res |-> "", usuarios |-> us, publicaciones |-> pubs, proximo |-> proximo]
        g == generar_id_publicacion(proximo)
    IN  IF _es_vendedor(us, caller) = "Ok(false)" THEN [same EXCEPT !.res = "UsuarioNoEsVendedor"]
        ELSE IF ~existe_producto(proximo_prod, id_producto) THEN [same EXCEPT !.res = "ProductoInvalido"]
        ELSE IF stock = 0 THEN [same EXCEPT !.res = "StockInsuficiente"]
        ELSE IF caller \notin DOMAIN us THEN [same EXCEPT !.res = "panic"]
        ELSE IF g.res # "Ok" THEN [same EXCEPT !.res = g.res]
        ELSE [res |-> "Ok",
              usuarios |-> us,
              publicaciones |-> Append(pubs,
                  [id_publicacion |-> g.id, id_producto |-> id_producto,
                   id_publicador |-> caller, precio |-> precio, stock |-> stock,
                   activa |-> TRUE]),
              proximo |-> g.proximo]

\* _crear_publicacion: [res, usuarios, publicaciones, proximo].  "panic" is
\* the unwrap() of line 496 on a caller that is not registered.
_crear_publicacion(us, pubs, proximo_prod, proximo, id_producto, precio, stock, caller) ==
    LET same == [res |-> "", usuarios |-> us, publicaciones |-> pubs, proximo |-> proximo]
        g == generar_id_publicacion(proximo)
    IN  IF _es_vendedor(us, caller) = "Ok(false)" THEN [same EXCEPT !.res = "UsuarioNoEsVendedor"]
        ELSE IF ~existe_producto(proximo_prod, id_producto) THEN [same EXCEPT !.res = "ProductoInvalido"]
        ELSE IF stock = 0 THEN [same EXCEPT !.res = "StockInsuficiente"]
        ELSE IF caller \notin DOMAIN us THEN [same EXCEPT !.res = "panic"]
        ELSE IF g.res # "Ok" THEN [same EXCEPT !.res = g.res]
        ELSE [res |-> "Ok",
              usuarios |-> Insert(us, caller,
                  [us[caller] EXCEPT !.publicaciones = Append(@, g.id)]),
              publicaciones |-> Append(pubs,
                  [id_publicacion |-> g.id, id_producto |-> id_producto,
                   id_publicador |-> caller, precio |-> precio, stock |-> stock,
                   activa |-> TRUE]),
              proximo |-> g.proximo]

\* Publicacion::tiene_stock_suficiente
tiene_stock_suficiente(publi, cant) == publi.stock >= cant

\* Variant of actualizar_stock: takes one unit whatever the quantity bought.
mut_actualizar_stock_uno(publi, cant) ==
    IF publi.stock = 0 THEN [res |-> "PublicacionesLleno", publi |-> publi]
    ELSE [res |-> "Ok", publi |-> [publi EXCEPT !.stock = @ - 1]]

\* Variant of actualizar_stock: the subtraction wraps around at the width
\* of u32.
mut_actualizar_stock_vuelta(publi, cant) ==
    [res |-> "Ok", publi |-> [publi EXCEPT !.stock = (@ - cant) % (U32_MAX + 1)]]

\* Publicacion::actualizar_stock: [res, publi]
actualizar_stock(publi, cant) ==
    LET val == checked_sub(publi.stock, cant)
    IN  IF val = None THEN [res |-> "PublicacionesLleno", publi |-> publi]
        ELSE [res |-> "Ok", publi |-> [publi EXCEPT !.stock = val]]

------------------------------------------------------------------------------
(* Purchase orders *)

\* validar_orden: "Ok" or the first error met, scanning the items in order
\* from item i with the listing ids already seen.
RECURSIVE validar_orden_desde(_, _, _, _, _)
validar_orden_desde(pubs, lista, vendedor_actual, i, vistos) ==
    IF i > Len(lista) THEN "Ok"
    ELSE LET id_publicacion_actual == lista[i][1]
             cant_productos == lista[i][2]
             pos == Posicion(pubs, id_publicacion_actual)
         IN  IF id_publicacion_actual \in vistos THEN "PublicacionRepetida"
             ELSE IF cant_productos = 0 THEN "NoPuedeComprarCero"
             ELSE IF pos = 0 THEN "PublicacionNoValida"
             ELSE IF pubs[pos].id_publicador # vendedor_actual THEN "VendedorDistinto"
             ELSE IF ~tiene_stock_suficiente(pubs[pos], cant_productos) THEN "StockInsuficiente"
             ELSE validar_orden_desde(pubs, lista, vendedor_actual, i + 1,
                                      vistos \cup {id_publicacion_actual})

\* Variant of validar_orden: the seller of a listing is not compared with
\* the seller of the order.
RECURSIVE mut_validar_orden_sin_vendedor_desde(_, _, _, _)
mut_validar_orden_sin_vendedor_desde(pubs, lista, i, vistos) ==
    IF i > Len(lista) THEN "Ok"
    ELSE LET pos == Posicion(pubs, lista[i][1])
         IN  IF lista[i][1] \in vistos THEN "PublicacionRepetida"
             ELSE IF lista[i][2] = 0 THEN "NoPuedeComprarCero"
             ELSE IF pos = 0 THEN "PublicacionNoValida"
             ELSE IF ~tiene_stock_suficiente(pubs[pos], lista[i][2]) THEN "StockInsuficiente"
             ELSE mut_validar_orden_sin_vendedor_desde(pubs, lista, i + 1,
                                                       vistos \cup {lista[i][1]})

mut_validar_orden_sin_vendedor(pubs, lista, vendedor_actual) ==
    mut_validar_orden_sin_vendedor_desde(pubs, lista, 1, {})

\* Variant of validar_orden in two passes: the repetitions and the zero
\* quantities of every item are looked for before any listing is looked up.
RECURSIVE mut_validar_orden_primera_pasada(_, _, _)
mut_validar_orden_primera_pasada(lista, i, vistos) ==
    IF i > Len(lista) THEN "Ok"
    ELSE IF lista[i][1] \in vistos THEN "PublicacionRepetida"
    ELSE IF lista[i][2] = 0 THEN "NoPuedeComprarCero"
    ELSE mut_validar_orden_primera_pasada(lista, i + 1, vistos \cup {lista[i][1]})

mut_validar_orden_dos_pasadas(pubs, lista, vendedor_actual) ==
    IF mut_validar_orden_primera_pasada(lista, 1, {}) # "Ok"
    THEN mut_validar_orden_primera_pasada(lista, 1, {})
    ELSE validar_orden_desde(pubs, lista, vendedor_actual, 1, {})

validar_orden(pubs, lista, vendedor_actual) ==
    validar_orden_desde(pubs, lista, vendedor_actual, 1, {})

\* validar_precio: [res, monto]; the listing is taken by position
\* (publicaciones.get(id as usize)), the total is accumulated from item i.
RECURSIVE validar_precio_desde(_, _, _, _, _)
validar_precio_desde(pubs, lista, dinero_disponible, i, monto_total) ==
    IF i > Len(lista)
    THEN IF dinero_disponible >= monto_total
         THEN [res |-> "Ok", monto |-> monto_total]
         ELSE [res |-> "DineroInsuficiente", monto |-> 0]
    ELSE LET idx == AsUsize(lista[i][1])
             cant_productos == lista[i][2]
         IN  IF idx >= Len(pubs) THEN [res |-> "PublicacionNoValida", monto |-> 0]
             ELSE LET monto_actual == checked_mul(Get(pubs, idx).precio, cant_productos)
                      suma == checked_add(monto_total, monto_actual)
                  IN  IF monto_actual = None THEN [res |-> "FueraDeRango", monto |-> 0]
                      ELSE IF suma = None THEN [res |-> "FueraDeRango", monto |-> 0]
                      ELSE validar_precio_desde(pubs, lista, dinero_disponible, i + 1, suma)

\* Variant of validar_precio: the total is not compared with the funds.
mut_validar_precio_sin_fondos(pubs, lista, dinero_disponible) ==
    validar_precio_desde(pubs, lista, U32_MAX, 1, 0)

validar_precio(pubs, lista, dinero_disponible) ==
    validar_precio_desde(pubs, lista, dinero_disponible, 1, 0)

\* actualizar_stock_de_orden: [publicaciones, lista_productos]; the result
\* of actualizar_stock is dropped, an id with no listing is skipped.
RECURSIVE actualizar_stock_de_orden_desde(_, _, _, _)
actualizar_stock_de_orden_desde(pubs, lista, i, lista_productos) ==
    IF i > Len(lista) THEN [publicaciones |-> pubs, lista_productos |-> lista_productos]
    ELSE LET posicion == Posicion(pubs, lista[i][1])
             cant_productos == lista[i][2]
         IN  IF posicion = 0
             THEN actualizar_stock_de_orden_desde(pubs, lista, i + 1, lista_productos)
             ELSE LET publicacion_actual == actualizar_stock(pubs[posicion], cant_productos).publi
                  IN  actualizar_stock_de_orden_desde(
                          [pubs EXCEPT ![posicion] = publicacion_actual], lista, i + 1,
                          Append(lista_productos,
                                 <<publicacion_actual.id_producto, cant_productos>>))

\* Variant of actualizar_stock_de_orden: the order records the ids of the
\* listings instead of the ids of their products.
mut_actualizar_stock_de_orden_ids(pubs, lista) ==
    [publicaciones |-> actualizar_stock_de_orden_desde(pubs, lista, 1, <<>>).publicaciones,
     lista_productos |-> lista]

actualizar_stock_de_orden(pubs, lista) ==
    actualizar_stock_de_orden_desde(pubs, lista, 1, <<>>)

\* Variant of agregar_orden_usuario: the id is pushed twice.
mut_agregar_orden_dos_veces(us, user_id, id_orden) ==
    IF user_id \in DOMAIN us
    THEN [res |-> "Ok",
          usuarios |-> Insert(us, user_id,
                              [us[user_id] EXCEPT !.ordenes = Append(Append(@, id_orden), id_orden)])]
    ELSE [res |-> "UsuarioNoExiste", usuarios |-> us]

\* agregar_orden_usuario: [res, usuarios]
agregar_orden_usuario(us, user_id, id_orden) ==
    IF user_id \in DOMAIN us
    THEN [res |-> "Ok",
          usuarios |-> Insert(us, user_id, [us[user_id] EXCEPT !.ordenes = Append(@, id_orden)])]
    ELSE [res |-> "UsuarioNoExiste", usuarios |-> us]

\* The order built at lines 597-605.
NuevaOrden(caller, lista_compra, id_orden, vendedor_actual, monto_total) ==
    [id_comprador |-> caller, lista_productos |-> lista_compra,
     id_orden_compra |-> id_orden, estado |-> "Pendiente",
     id_vendedor |-> vendedor_actual, solicitud_cancelacion |-> NoAccount,
     monto |-> monto_total]

\* Variants of _generar_orden_compra: the stock is taken before the prices
\* are validated (stock_antes) / the caller is not compared with the seller
\* (~con_propia) / the prices are validated before the order (precio_primero).
mut_generar(us, pubs, ords, proximo, lista, dinero_disponible, caller,
            stock_antes, con_propia, precio_primero) ==
    LET same == [res |-> "", usuarios |-> us, publicaciones |-> pubs,
                 ordenes |-> ords, proximo |-> proximo, valor |-> <<>>]
        pos == Posicion(pubs, lista[1][1])
        vendedor_actual == pubs[pos].id_publicador
        vo == validar_orden(pubs, lista, vendedor_actual)
        vp == validar_precio(pubs, lista, dinero_disponible)
        st == actualizar_stock_de_orden(pubs, lista)
        g == generar_id_orden(proximo)
        orden == NuevaOrden(caller, st.lista_productos, g.id, vendedor_actual, vp.monto)
        ords2 == Append(ords, orden)
        a1 == agregar_orden_usuario(us, caller, g.id)
        a2 == agregar_orden_usuario(a1.usuarios, vendedor_actual, g.id)
    IN  IF _es_comprador(us, caller) = "UsuarioNoExiste" THEN [same EXCEPT !.res = "UsuarioNoExiste"]
        ELSE IF _es_comprador(us, caller) = "Ok(false)" THEN [same EXCEPT !.res = "UsuarioNoEsComprador"]
        ELSE IF lista = <<>> THEN [same EXCEPT !.res = "CompraSinItems"]
        ELSE IF pos = 0 THEN [same EXCEPT !.res = "PublicacionNoValida"]
        ELSE IF con_propia /\ vendedor_actual = caller
             THEN [same EXCEPT !.res = "NoPuedeComprarPublicacionPropia"]
        ELSE IF precio_primero /\ vp.res # "Ok" THEN [same EXCEPT !.res = vp.res]
        ELSE IF vo # "Ok" THEN [same EXCEPT !.res = vo]
        ELSE IF vp.res # "Ok"
             THEN [same EXCEPT !.res = vp.res,
                               !.publicaciones = IF stock_antes THEN st.publicaciones ELSE pubs]
        ELSE IF g.res # "Ok"
             THEN [same EXCEPT !.res = g.res, !.publicaciones = st.publicaciones]
        ELSE IF a1.res # "Ok"
             THEN [res |-> a1.res, usuarios |-> us, publicaciones |-> st.publicaciones,
                   ordenes |-> ords2, proximo |-> g.proximo, valor |-> <<>>]
        ELSE [res |-> a2.res, usuarios |-> a2.usuarios, publicaciones |-> st.publicaciones,
              ordenes |-> ords2, proximo |-> g.proximo,
              valor |-> IF a2.res = "Ok" THEN <<orden>> ELSE <<>>]

mut_generar_stock_antes(us, pubs, ords, proximo, lista, dinero_disponible, caller) ==
    mut_generar(us, pubs, ords, proximo, lista, dinero_disponible, caller, TRUE, TRUE, FALSE)
mut_generar_sin_propia(us, pubs, ords, proximo, lista, dinero_disponible, caller) ==
    mut_generar(us, pubs, ords, proximo, lista, dinero_disponible, caller, FALSE, FALSE, FALSE)
mut_generar_precio_primero(us, pubs, ords, proximo, lista, dinero_disponible, caller) ==
    mut_generar(us, pubs, ords, proximo, lista, dinero_disponible, caller, FALSE, TRUE, TRUE)

\* _generar_orden_compra: [res, usuarios, publicaciones, ordenes, proximo,
\* valor], valor holding the order returned with Ok.
\* The writes are made in the order of the source, so an error returned
\* after the stock update keeps the updated stock.
_generar_orden_compra(us, pubs, ords, proximo, lista, dinero_disponible, caller) ==
    LET same == [res |-> "", usuarios |-> us, publicaciones |-> pubs,
                 ordenes |-> ords, proximo |-> proximo, valor |-> <<>>]
        pos == Posicion(pubs, lista[1][1])
        vendedor_actual == pubs[pos].id_publicador
        vo == validar_orden(pubs, lista, vendedor_actual)
        vp == validar_precio(pubs, lista, dinero_disponible)
        st == actualizar_stock_de_orden(pubs, lista)
        g == generar_id_orden(proximo)
        orden == NuevaOrden(caller, st.lista_productos, g.id, vendedor_actual, vp.monto)
        ords2 == Append(ords, orden)
        a1 == agregar_orden_usuario(us, caller, g.id)
        a2 == agregar_orden_usuario(a1.usuarios, vendedor_actual, g.id)
    IN  IF _es_comprador(us, caller) = "UsuarioNoExiste" THEN [same EXCEPT !.res = "UsuarioNoExiste"]
        ELSE IF _es_comprador(us, caller) = "Ok(false)" THEN [same EXCEPT !.res = "UsuarioNoEsComprador"]
        ELSE IF lista = <<>> THEN [same EXCEPT !.res = "CompraSinItems"]
        ELSE IF pos = 0 THEN [same EXCEPT !.res = "PublicacionNoValida"]
        ELSE IF vendedor_actual = caller THEN [same EXCEPT !.res = "NoPuedeComprarPublicacionPropia"]
        ELSE IF vo # "Ok" THEN [same EXCEPT !.res = vo]
        ELSE IF vp.res # "Ok" THEN [same EXCEPT !.res = vp.res]
        ELSE IF g.res # "Ok"
             THEN [same EXCEPT !.res = g.res, !.publicaciones = st.publicaciones]
        ELSE IF a1.res # "Ok"
             THEN [res |-> a1.res, usuarios |-> us, publicaciones |-> st.publicaciones,
                   ordenes |-> ords2, proximo |-> g.proximo, valor |-> <<>>]
        ELSE [res |-> a2.res, usuarios |-> a2.usuarios, publicaciones |-> st.publicaciones,
              ordenes |-> ords2, proximo |-> g.proximo,
              valor |-> IF a2.res = "Ok" THEN <<orden>> ELSE <<>>]

\* Variants of the order messages with one check left out.
\* No check of the status: ships from any status.
mut_enviada_sin_estado(ords, id_actual, caller) ==
    LET idx == AsUsize(id_actual)
    IN  IF idx >= Len(ords) THEN [res |-> "IdDeOrdenNoValida", ordenes |-> ords]
        ELSE IF Get(ords, idx).id_vendedor # caller
             THEN [res |-> "OperacionNoValida", ordenes |-> ords]
        ELSE [res |-> "Ok", ordenes |-> [ords EXCEPT ![idx + 1].estado = "Enviado"]]

\* No check of the caller: anyone ships a pending order.
mut_enviada_sin_caller(ords, id_actual, caller) ==
    LET idx == AsUsize(id_actual)
    IN  IF idx >= Len(ords) THEN [res |-> "IdDeOrdenNoValida", ordenes |-> ords]
        ELSE IF Get(ords, idx).estado = "Pendiente"
             THEN [res |-> "Ok", ordenes |-> [ords EXCEPT ![idx + 1].estado = "Enviado"]]
        ELSE [res |-> "OperacionNoValida", ordenes |-> ords]

\* Receives an order that was not shipped yet.
mut_recibida_sin_envio(ords, id_actual, caller) ==
    LET idx == AsUsize(id_actual)
    IN  IF idx >= Len(ords) THEN [res |-> "IdDeOrdenNoValida", ordenes |-> ords]
        ELSE IF Get(ords, idx).id_comprador # caller
             THEN [res |-> "OperacionNoValida", ordenes |-> ords]
        ELSE IF Get(ords, idx).estado \in {"Pendiente", "Enviado"}
             THEN [res |-> "Ok", ordenes |-> [ords EXCEPT ![idx + 1].estado = "Recibido"]]
        ELSE [res |-> "OperacionNoValida", ordenes |-> ords]

\* The steps of _cancelar_orden, each of which a variant below leaves out or
\* changes: cancels at the first request / accepts a received order / lets
\* the requester finalize alone / finalizes whoever the requester was.
mut_cancelar(ords, id_actual, caller, inmediato, recibido, repetida, participante) ==
    LET idx == AsUsize(id_actual)
        orden_actual == Get(ords, idx)
        id_anterior == orden_actual.solicitud_cancelacion
    IN  IF idx >= Len(ords) THEN [res |-> "IdDeOrdenNoValida", ordenes |-> ords]
        ELSE IF orden_actual.estado = "Cancelado"
             THEN [res |-> "OrdenCancelada", ordenes |-> ords]
        ELSE IF recibido /\ orden_actual.estado = "Recibido"
             THEN [res |-> "OperacionNoValida", ordenes |-> ords]
        ELSE IF repetida /\ id_anterior # NoAccount /\ id_anterior = caller
             THEN [res |-> "CancelacionYaSolicitada", ordenes |-> ords]
        ELSE IF \/ inmediato
                \/ /\ id_anterior # NoAccount
                   /\ (participante =>
                         (id_anterior = orden_actual.id_comprador \/ id_anterior = orden_actual.id_vendedor))
             THEN [res |-> "Ok", ordenes |-> [ords EXCEPT ![idx + 1].estado = "Cancelado"]]
        ELSE [res |-> "Ok", ordenes |-> [ords EXCEPT ![idx + 1].solicitud_cancelacion = caller]]

mut_cancelar_inmediato(ords, id_actual, caller) ==
    mut_cancelar(ords, id_actual, caller, TRUE, TRUE, TRUE, TRUE)
mut_cancelar_sin_recibido(ords, id_actual, caller) ==
    mut_cancelar(ords, id_actual, caller, FALSE, FALSE, TRUE, TRUE)
mut_cancelar_sin_repetida(ords, id_actual, caller) ==
    mut_cancelar(ords, id_actual, caller, FALSE, TRUE, FALSE, TRUE)
mut_cancelar_sin_participante(ords, id_actual, caller) ==
    mut_cancelar(ords, id_actual, caller, FALSE, TRUE, TRUE, FALSE)

\* Variant of _cancelar_orden: only the buyer and the seller may ask.
mut_cancelar_solo_partes(ords, id_actual, caller) ==
    LET idx == AsUsize(id_actual)
    IN  IF /\ idx < Len(ords)
           /\ Get(ords, idx).estado \in {"Pendiente", "Enviado"}
           /\ caller \notin {Get(ords, idx).id_comprador, Get(ords, idx).id_vendedor}
        THEN [res |-> "OperacionNoValida", ordenes |-> ords]
        ELSE mut_cancelar(ords, id_actual, caller, FALSE, TRUE, TRUE, TRUE)

\* Variant of _cancelar_orden: the finalizing call clears the request.
mut_cancelar_borra_solicitud(ords, id_actual, caller) ==
    LET r == mut_cancelar(ords, id_actual, caller, FALSE, TRUE, TRUE, TRUE)
        idx == AsUsize(id_actual)
    IN  IF idx < Len(ords) /\ r.res = "Ok" /\ Get(r.ordenes, idx).estado = "Cancelado"
        THEN [r EXCEPT !.ordenes[idx + 1].solicitud_cancelacion = NoAccount]
        ELSE r

\* Variant of _marcar_orden_como_enviada: an order with a recorded
\* cancellation request is not shipped.
mut_enviada_bloqueada(ords, id_actual, caller) ==
    LET idx == AsUsize(id_actual)
    IN  IF idx >= Len(ords) THEN [res |-> "IdDeOrdenNoValida", ordenes |-> ords]
        ELSE IF Get(ords, idx).id_vendedor # caller
             THEN [res |-> "OperacionNoValida", ordenes |-> ords]
        ELSE IF /\ Get(ords, idx).estado = "Pendiente"
                /\ Get(ords, idx).solicitud_cancelacion = NoAccount
             THEN [res |-> "Ok", ordenes |-> [ords EXCEPT ![idx + 1].estado = "Enviado"]]
        ELSE [res |-> "OperacionNoValida", ordenes |-> ords]

\* _marcar_orden_como_enviada: [res, ordenes]
_marcar_orden_como_enviada(ords, id_actual, caller) ==
    LET idx == AsUsize(id_actual)
    IN  IF idx >= Len(ords) THEN [res |-> "IdDeOrdenNoValida", ordenes |-> ords]
        ELSE IF Get(ords, idx).id_vendedor # caller
             THEN [res |-> "OperacionNoValida", ordenes |-> ords]
        ELSE IF Get(ords, idx).estado = "Pendiente"
             THEN [res |-> "Ok", ordenes |-> [ords EXCEPT ![idx + 1].estado = "Enviado"]]
        ELSE [res |-> "OperacionNoValida", ordenes |-> ords]

\* _marcar_orden_como_recibida: [res, ordenes]
_marcar_orden_como_recibida(ords, id_actual, caller) ==
    LET idx == AsUsize(id_actual)
    IN  IF idx >= Len(ords) THEN [res |-> "IdDeOrdenNoValida", ordenes |-> ords]
        ELSE IF Get(ords, idx).id_comprador # caller
             THEN [res |-> "OperacionNoValida", ordenes |-> ords]
        ELSE IF Get(ords, idx).estado = "Enviado"
             THEN [res |-> "Ok", ordenes |-> [ords EXCEPT ![idx + 1].estado = "Recibido"]]
        ELSE [res |-> "OperacionNoValida", ordenes |-> ords]

\* _cancelar_orden: [res, ordenes]
_cancelar_orden(ords, id_actual, caller) ==
    LET idx == AsUsize(id_actual)
        orden_actual == Get(ords, idx)
        id_anterior == orden_actual.solicitud_cancelacion
    IN  IF idx >= Len(ords) THEN [res |-> "IdDeOrdenNoValida", ordenes |-> ords]
        ELSE IF orden_actual.estado = "Cancelado"
             THEN [res |-> "OrdenCancelada", ordenes |-> ords]
        ELSE IF orden_actual.estado = "Recibido"
             THEN [res |-> "OperacionNoValida", ordenes |-> ords]
        ELSE IF id_anterior # NoAccount /\ id_anterior = caller
             THEN [res |-> "CancelacionYaSolicitada", ordenes |-> ords]
        ELSE IF /\ id_anterior # NoAccount
                /\ (id_anterior = orden_actual.id_comprador \/ id_anterior = orden_actual.id_vendedor)
             THEN [res |-> "Ok", ordenes |-> [ords EXCEPT ![idx + 1].estado = "Cancelado"]]
        ELSE [res |-> "Ok", ordenes |-> [ords EXCEPT ![idx + 1].solicitud_cancelacion = caller]]

------------------------------------------------------------------------------
(* Queries *)

\* _get_publicaciones_propias: [res, valor]
_get_publicaciones_propias(us, pubs, caller) ==
    IF _existe_usuario(us, caller) # "Ok(true)"
    THEN [res |-> "UsuarioNoExiste", valor |-> <<>>]
    ELSE IF _es_vendedor(us, caller) # "Ok(true)"
         THEN [res |-> "UsuarioNoEsVendedor", valor |-> <<>>]
    ELSE [res |-> "Ok",
          valor |-> SelectSeq(pubs, LAMBDA publicacion : publicacion.id_publicador = caller)]

\* Variant of _ver_mis_ordenes: the orders the caller sells are left out.
mut_ver_mis_ordenes_sin_ventas(us, ords, caller) ==
    IF caller \notin DOMAIN us THEN <<>>
    ELSE LET ids == SelectSeq(us[caller].ordenes, LAMBDA id : AsUsize(id) < Len(ords))
             mis_ordenes == [i \in 1..Len(ids) |-> Get(ords, AsUsize(ids[i]))]
         IN  SelectSeq(mis_ordenes, LAMBDA orden : orden.id_comprador = caller)

\* _ver_mis_ordenes: for each id of user.ordenes, in their order, the order
\* at position `id as usize` if there is one
_ver_mis_ordenes(us, ords, caller) ==
    IF caller \notin DOMAIN us THEN <<>>
    ELSE LET ids == SelectSeq(us[caller].ordenes, LAMBDA id : AsUsize(id) < Len(ords))
         IN  [i \in 1..Len(ids) |-> Get(ords, AsUsize(ids[i]))]

------------------------------------------------------------------------------
(* Messages *)

\* The record of a message: `valor` is the sequence a query returns, or the
\* one order generar_orden_compra returns, and is empty otherwise.
RetValor(op, caller, id, res, valor) ==
    [op |-> op, caller |-> caller, id |-> id, res |-> res, valor |-> valor]
Ret(op, caller, id, res) == RetValor(op, caller, id, res, <<>>)

registrar_usuario(caller, rol) ==
    LET r == _registrar_usuario(usuarios, rol, caller)
    IN  /\ usuarios' = r.usuarios
        /\ ret' = Ret("registrar_usuario", caller, 0, r.res)
        /\ UNCHANGED <<publicaciones, productos, ordenes,
                       proximo_id_publicacion, proximo_id_producto, proximo_id_orden>>

agregar_rol(caller, rol) ==
    LET r == _agregar_rol(usuarios, rol, caller)
    IN  /\ usuarios' = r.usuarios
        /\ ret' = Ret("agregar_rol", caller, 0, r.res)
        /\ UNCHANGED <<publicaciones, productos, ordenes,
                       proximo_id_publicacion, proximo_id_producto, proximo_id_orden>>

NuevoProducto(caller) ==
    LET r == nuevo_producto(usuarios, productos, proximo_id_producto, caller)
    IN  /\ productos' = r.productos
        /\ proximo_id_producto' = r.proximo
        /\ ret' = Ret("nuevo_producto", caller, r.id, r.res)
        /\ UNCHANGED <<usuarios, publicaciones, ordenes,
                       proximo_id_publicacion, proximo_id_orden>>

crear_publicacion(caller, id_producto, precio, stock) ==
    LET r == _crear_publicacion(usuarios, publicaciones, proximo_id_producto,
                                proximo_id_publicacion, id_producto, precio, stock, caller)
    IN  /\ usuarios' = r.usuarios
        /\ publicaciones' = r.publicaciones
        /\ proximo_id_publicacion' = r.proximo
        /\ ret' = Ret("crear_publicacion", caller, 0, r.res)
        /\ UNCHANGED <<productos, ordenes, proximo_id_producto, proximo_id_orden>>

generar_orden_compra(caller, lista, dinero_disponible) ==
    LET r == _generar_orden_compra(usuarios, publicaciones, ordenes, proximo_id_orden,
                                   lista, dinero_disponible, caller)
    IN  /\ usuarios' = r.usuarios
        /\ publicaciones' = r.publicaciones
        /\ ordenes' = r.ordenes
        /\ proximo_id_orden' = r.proximo
        /\ ret' = RetValor("generar_orden_compra", caller, 0, r.res, r.valor)
        /\ UNCHANGED <<productos, proximo_id_publicacion, proximo_id_producto>>

marcar_orden_como_enviada(caller, id_actual) ==
    LET r == _marcar_orden_como_enviada(ordenes, id_actual, caller)
    IN  /\ ordenes' = r.ordenes
        /\ ret' = Ret("marcar_orden_como_enviada", caller, id_actual, r.res)
        /\ UNCHANGED <<usuarios, publicaciones, productos,
                       proximo_id_publicacion, proximo_id_producto, proximo_id_orden>>

marcar_orden_como_recibida(caller, id_actual) ==
    LET r == _marcar_orden_como_recibida(ordenes, id_actual, caller)
    IN  /\ ordenes' = r.ordenes
        /\ ret' = Ret("marcar_orden_como_recibida", caller, id_actual, r.res)
        /\ UNCHANGED <<usuarios, publicaciones, productos,
                       proximo_id_publicacion, proximo_id_producto, proximo_id_orden>>

\* Variant of the message cancelar_orden: the call that cancels the order
\* gives a unit back to every listing.
mut_cancelar_orden_repone(caller, id_actual) ==
    LET r == _cancelar_orden(ordenes, id_actual, caller)
    IN  /\ ordenes' = r.ordenes
        /\ ret' = Ret("cancelar_orden", caller, id_actual, r.res)
        /\ publicaciones' =
              IF \E k \in 1..Len(ordenes) :
                     ordenes[k].estado # "Cancelado" /\ r.ordenes[k].estado = "Cancelado"
              THEN [i \in 1..Len(publicaciones) |->
                        [publicaciones[i] EXCEPT !.stock = @ + 1]]
              ELSE publicaciones
        /\ UNCHANGED <<usuarios, productos,
                       proximo_id_publicacion, proximo_id_producto, proximo_id_orden>>

cancelar_orden(caller, id_actual) ==
    LET r == _cancelar_orden(ordenes, id_actual, caller)
    IN  /\ ordenes' = r.ordenes
        /\ ret' = Ret("cancelar_orden", caller, id_actual, r.res)
        /\ UNCHANGED <<usuarios, publicaciones, productos,
                       proximo_id_publicacion, proximo_id_producto, proximo_id_orden>>

\* The queries (&self): they change nothing but the value returned.
es_vendedor(caller) ==
    /\ ret' = Ret("es_vendedor", caller, 0, _es_vendedor(usuarios, caller))
    /\ UNCHANGED <<usuarios, publicaciones, productos, ordenes,
                   proximo_id_publicacion, proximo_id_producto, proximo_id_orden>>

es_comprador(caller) ==
    /\ ret' = Ret("es_comprador", caller, 0, _es_comprador(usuarios, caller))
    /\ UNCHANGED <<usuarios, publicaciones, productos, ordenes,
                   proximo_id_publicacion, proximo_id_producto, proximo_id_orden>>

get_publicaciones(caller) ==
    /\ ret' = RetValor("get_publicaciones", caller, 0, "Ok", publicaciones)
    /\ UNCHANGED <<usuarios, publicaciones, productos, ordenes,
                   proximo_id_publicacion, proximo_id_producto, proximo_id_orden>>

get_publicaciones_propias(caller) ==
    LET r == _get_publicaciones_propias(usuarios, publicaciones, caller)
    IN  /\ ret' = RetValor("get_publicaciones_propias", caller, 0, r.res, r.valor)
        /\ UNCHANGED <<usuarios, publicaciones, productos, ordenes,
                       proximo_id_publicacion, proximo_id_producto, proximo_id_orden>>

ver_mis_ordenes(caller) ==
    /\ ret' = RetValor("ver_mis_ordenes", caller, 0, "Ok",
                       _ver_mis_ordenes(usuarios, ordenes, caller))
    /\ UNCHANGED <<usuarios, publicaciones, productos, ordenes,
                   proximo_id_publicacion, proximo_id_producto, proximo_id_orden>>

\* The messages, with caller and arguments drawn from the input sets of
\* the environment E: registration and catalogue (at most E.tope_productos
\* products and E.tope_publicaciones listings are created) ...
MensajesAlta(E) ==
    \/ \E r \in E.registros : registrar_usuario(r[1], r[2])
    \/ \E r \in E.roles : agregar_rol(r[1], r[2])
    \/ \E c \in E.productores :
         /\ NuevoProducto(c)
         /\ ret'.res = "Ok" => proximo_id_producto < E.tope_productos
    \/ \E p \in E.publicaciones :
         /\ crear_publicacion(p[1], p[2], p[3], p[4])
         /\ ret'.res = "Ok" => Len(publicaciones) < E.tope_publicaciones

\* ... purchase (at most E.tope_ordenes orders are created) ...
MensajesCompra(E) ==
    \E c \in E.compradores, lista \in E.listas, dinero \in E.fondos :
        /\ generar_orden_compra(c, lista, dinero)
        /\ ret'.res = "Ok" => Len(ordenes) < E.tope_ordenes

\* ... and the life of an order.
MensajesOrden(E) ==
    \/ \E c \in E.actores, id \in E.ids : marcar_orden_como_enviada(c, id)
    \/ \E c \in E.actores, id \in E.ids : marcar_orden_como_recibida(c, id)
    \/ \E c \in E.actores, id \in E.ids : cancelar_orden(c, id)

MensajesConsulta(E) ==
    \/ \E c \in E.consultantes : es_vendedor(c)
    \/ \E c \in E.consultantes : es_comprador(c)
    \/ \E c \in E.consultantes : get_publicaciones(c)
    \/ \E c \in E.consultantes : get_publicaciones_propias(c)
    \/ \E c \in E.consultantes : ver_mis_ordenes(c)

\* Order lifecycle: one buyer (alice), one seller (bob), one listing bought
\* from; every account (charlie is never registered) calls the three order
\* messages with every order id.
EnvOrdenes ==
    [registros |-> {<<"alice", "Comprador">>, <<"bob", "Vendedor">>},
     roles |-> {<<"alice", "Vendedor">>},
     productores |-> {"bob"},
     publicaciones |-> {<<"bob", 0, 1, MaxCant>>},
     compradores |-> {"alice"},
     listas |-> {<< <<0, 1>> >>},
     fondos |-> {U32_MAX},
     tope_productos |-> MaxProductos,
     tope_publicaciones |-> MaxPublicaciones,
     tope_ordenes |-> MaxOrdenes,
     actores |-> Principals,
     ids |-> IdsOrden]

NextOrdenes ==
    \/ MensajesAlta(EnvOrdenes)
    \/ MensajesCompra(EnvOrdenes)
    \/ MensajesOrden(EnvOrdenes)

SpecOrdenes == Init /\ [][NextOrdenes]_vars

\* Purchases: two sellers (alice, bob), two buyers (alice, charlie), listings
\* at both prices; every account asks for every item list with each amount
\* of funds.
EnvCompra ==
    [registros |-> {<<"alice", "Ambos">>, <<"bob", "Vendedor">>, <<"charlie", "Comprador">>},
     roles |-> {<<"charlie", "Comprador">>},
     productores |-> {"bob"},
     publicaciones |-> {<<"alice", 0, 1, MaxCant>>} \cup ({"bob"} \X {0} \X Precios \X {MaxCant}),
     compradores |-> Principals,
     listas |-> Listas,
     fondos |-> Fondos,
     tope_productos |-> MaxProductos,
     tope_publicaciones |-> MaxPublicaciones,
     tope_ordenes |-> MaxOrdenes]

NextCompra ==
    \/ MensajesAlta(EnvCompra)
    \/ MensajesCompra(EnvCompra)

SpecCompra == Init /\ [][NextCompra]_vars

\* Exhaustion of the ids: one seller (bob) creates products and listings
\* until no id is left, and one buyer (alice) buys one unit at a time from
\* his first two listings, which together hold more units than there are
\* order ids, until generar_id_orden has no id left.
EnvLleno ==
    [registros |-> {<<"alice", "Comprador">>, <<"bob", "Vendedor">>},
     roles |-> {<<"bob", "Vendedor">>},
     productores |-> {"bob"},
     publicaciones |-> {<<"bob", 0, 1, U32_MAX>>},
     compradores |-> {"alice"},
     listas |-> {<< <<0, 1>> >>, << <<1, 1>> >>},
     fondos |-> {U32_MAX},
     tope_productos |-> U128_MAX,
     tope_publicaciones |-> U128_MAX,
     tope_ordenes |-> U128_MAX]

NextLleno ==
    \/ MensajesAlta(EnvLleno)
    \/ MensajesCompra(EnvLleno)

SpecLleno == Init /\ [][NextLleno]_vars

\* Registration and catalogue: alice and bob register with any role and ask
\* for any role, charlie never registers; bob and charlie create products
\* and listings of every product id, with and without stock; alice buys from
\* listing 0.
EnvAlta ==
    [registros |-> {"alice", "bob"} \X Roles,
     roles |-> Principals \X Roles,
     productores |-> {"bob", "charlie"},
     publicaciones |-> {"bob", "charlie"} \X IdsProducto \X {1} \X {0, MaxCant},
     compradores |-> {"alice"},
     listas |-> {<< <<0, 1>> >>},
     fondos |-> {U32_MAX},
     tope_productos |-> MaxProductos,
     tope_publicaciones |-> MaxPublicaciones,
     tope_ordenes |-> MaxOrdenes]

NextAlta ==
    \/ MensajesAlta(EnvAlta)
    \/ MensajesCompra(EnvAlta)

SpecAlta == Init /\ [][NextAlta]_vars

\* Queries: alice sells and buys (Ambos), bob sells, charlie registers as
\* buyer and may become Ambos; alice and bob publish product 0, anyone buys
\* one unit from listing 0 or 1, so that alice can be the buyer of one order
\* and the seller of another; order 0 moves through its life; every account
\* asks every query in every state.
EnvConsultas ==
    [registros |-> {<<"alice", "Ambos">>, <<"bob", "Vendedor">>, <<"charlie", "Comprador">>},
     roles |-> {<<"charlie", "Vendedor">>},
     productores |-> {"alice"},
     publicaciones |-> {<<"alice", 0, 1, MaxCant>>, <<"bob", 0, 1, MaxCant>>},
     compradores |-> Principals,
     listas |-> {<< <<0, 1>> >>, << <<1, 1>> >>},
     fondos |-> {U32_MAX},
     tope_productos |-> MaxProductos,
     tope_publicaciones |-> MaxPublicaciones,
     tope_ordenes |-> MaxOrdenes + 1,
     actores |-> Principals,
     ids |-> {0},
     consultantes |-> Principals]

NextConsultas ==
    \/ MensajesAlta(EnvConsultas)
    \/ MensajesCompra(EnvConsultas)
    \/ MensajesOrden(EnvConsultas)
    \/ MensajesConsulta(EnvConsultas)

SpecConsultas == Init /\ [][NextConsultas]_vars

------------------------------------------------------------------------------
(* Order lifecycle: C1 - C7 (SpecOrdenes) *)

\* The step just taken is the message `op` on the created order `id`.
SobreOrden(op) == ret'.op = op /\ ret'.id < Len(ordenes)
\* That order before and after the step.
Antes == Get(ordenes, ret'.id)
Despues == Get(ordenes', ret'.id)
Abierta(o) == o.estado \in {"Pendiente", "Enviado"}
Partes(o) == {o.id_comprador, o.id_vendedor}

\* C1: the status of an order changes only Pendiente -> Enviado (by
\* marcar_orden_como_enviada), Enviado -> Recibido (by
\* marcar_orden_como_recibida), or Pendiente/Enviado -> Cancelado (by
\* cancelar_orden); a status of Recibido or Cancelado never changes again,
\* and no order is ever removed.
C1_Transiciones ==
    [][/\ Len(ordenes') >= Len(ordenes)
       /\ \A k \in 1..Len(ordenes) :
            LET a == ordenes[k].estado
                b == ordenes'[k].estado
            IN  a # b =>
                  \/ a = "Pendiente" /\ b = "Enviado" /\ ret'.op = "marcar_orden_como_enviada"
                  \/ a = "Enviado" /\ b = "Recibido" /\ ret'.op = "marcar_orden_como_recibida"
                  \/ a \in {"Pendiente", "Enviado"} /\ b = "Cancelado" /\ ret'.op = "cancelar_orden"]_vars

\* An order went Pendiente -> Enviado -> Recibido and a later message on it
\* was refused.
C1_Witness ==
    /\ ret.op = "marcar_orden_como_enviada" /\ ret.res = "OperacionNoValida"
    /\ ret.id < Len(ordenes)
    /\ Get(ordenes, ret.id).estado = "Recibido"
    /\ ret.caller = Get(ordenes, ret.id).id_vendedor

\* C2: marcar_orden_como_enviada on a created order returns Ok and sets the
\* status to Enviado exactly when the caller is the order's seller and the
\* status is Pendiente; otherwise it returns OperacionNoValida and the order
\* keeps its status.
C2_Enviada ==
    [][SobreOrden("marcar_orden_como_enviada") =>
         IF ret'.caller = Antes.id_vendedor /\ Antes.estado = "Pendiente"
         THEN ret'.res = "Ok" /\ Despues.estado = "Enviado"
         ELSE ret'.res = "OperacionNoValida" /\ Despues.estado = Antes.estado]_vars

\* The seller has shipped order 0.
C2_Witness ==
    /\ ret.op = "marcar_orden_como_enviada" /\ ret.res = "Ok"
    /\ ret.id < Len(ordenes)
    /\ Get(ordenes, ret.id).estado = "Enviado"
    /\ ret.caller = Get(ordenes, ret.id).id_vendedor

\* C3: marcar_orden_como_recibida on a created order returns Ok and sets the
\* status to Recibido exactly when the caller is the order's buyer and the
\* status is Enviado; otherwise (seller or other caller, or status
\* Pendiente, Recibido, Cancelado) it returns OperacionNoValida and the
\* order keeps its status.
C3_Recibida ==
    [][SobreOrden("marcar_orden_como_recibida") =>
         IF ret'.caller = Antes.id_comprador /\ Antes.estado = "Enviado"
         THEN ret'.res = "Ok" /\ Despues.estado = "Recibido"
         ELSE ret'.res = "OperacionNoValida" /\ Despues.estado = Antes.estado]_vars

\* The buyer asked to receive an order that is still pending and was refused.
C3_Witness ==
    /\ ret.op = "marcar_orden_como_recibida" /\ ret.res = "OperacionNoValida"
    /\ ret.id < Len(ordenes)
    /\ Get(ordenes, ret.id).estado = "Pendiente"
    /\ ret.caller = Get(ordenes, ret.id).id_comprador

\* C4: on an open order (Pendiente or Enviado) with no request recorded,
\* cancelar_orden by the buyer or the seller returns Ok, records the caller
\* and keeps the status; with the request of one party recorded,
\* cancelar_orden by the other party returns Ok and sets the status to
\* Cancelado; on a cancelled order cancelar_orden by either party returns
\* OrdenCancelada.
C4_DosFases ==
    [][(SobreOrden("cancelar_orden") /\ ret'.caller \in Partes(Antes)) =>
         /\ (Abierta(Antes) /\ Antes.solicitud_cancelacion = NoAccount) =>
               /\ ret'.res = "Ok"
               /\ Despues.solicitud_cancelacion = ret'.caller
               /\ Despues.estado = Antes.estado
         /\ (/\ Abierta(Antes)
             /\ Antes.solicitud_cancelacion \in Partes(Antes)
             /\ Antes.solicitud_cancelacion # ret'.caller) =>
               /\ ret'.res = "Ok"
               /\ Despues.estado = "Cancelado"
         /\ Antes.estado = "Cancelado" =>
               /\ ret'.res = "OrdenCancelada"
               /\ Despues = Antes]_vars

\* The buyer's request is recorded and the seller's call has just cancelled
\* the order.
C4_Witness ==
    /\ ret.op = "cancelar_orden" /\ ret.res = "Ok"
    /\ ret.id < Len(ordenes)
    /\ Get(ordenes, ret.id).estado = "Cancelado"
    /\ Get(ordenes, ret.id).solicitud_cancelacion = Get(ordenes, ret.id).id_comprador
    /\ ret.caller = Get(ordenes, ret.id).id_vendedor

\* C5: cancelar_orden on an order whose status is Recibido returns
\* OperacionNoValida for every caller, with or without a recorded request,
\* and changes nothing in the order.
C5_CancelarRecibida ==
    [][(SobreOrden("cancelar_orden") /\ Antes.estado = "Recibido") =>
         /\ ret'.res = "OperacionNoValida"
         /\ ordenes' = ordenes]_vars

\* A received order that carries a recorded request refused a cancellation
\* asked by an account that is neither its buyer nor its seller.
C5_Witness ==
    /\ ret.op = "cancelar_orden" /\ ret.res = "OperacionNoValida"
    /\ ret.id < Len(ordenes)
    /\ Get(ordenes, ret.id).estado = "Recibido"
    /\ Get(ordenes, ret.id).solicitud_cancelacion # NoAccount
    /\ ret.caller \notin Partes(Get(ordenes, ret.id))

\* C6: cancelar_orden on an open order by the account whose request is
\* already recorded returns CancelacionYaSolicitada and changes nothing in
\* the order (so repeating the call gives the same answer).
C6_YaSolicitada ==
    [][(/\ SobreOrden("cancelar_orden")
        /\ Abierta(Antes)
        /\ Antes.solicitud_cancelacion = ret'.caller) =>
         /\ ret'.res = "CancelacionYaSolicitada"
         /\ ordenes' = ordenes]_vars

\* The seller asked twice to cancel a shipped order.
C6_Witness ==
    /\ ret.op = "cancelar_orden" /\ ret.res = "CancelacionYaSolicitada"
    /\ ret.id < Len(ordenes)
    /\ Get(ordenes, ret.id).estado = "Enviado"
    /\ Get(ordenes, ret.id).solicitud_cancelacion = ret.caller
    /\ ret.caller = Get(ordenes, ret.id).id_vendedor

------------------------------------------------------------------------------
(* Purchases: C8 - C10 (SpecCompra) *)

Rango(s) == {s[i] : i \in 1..Len(s)}

\* The result of generar_orden_compra(lista, dinero) called by c in the
\* current state.
Compra(c, lista, dinero) ==
    _generar_orden_compra(usuarios, publicaciones, ordenes, proximo_id_orden,
                          lista, dinero, c)

\* The listing with a given id, and the quantity a list asks of it.
PublicacionConId(id) == CHOOSE p \in Rango(publicaciones) : p.id_publicacion = id

RECURSIVE CantidadPedida(_, _)
CantidadPedida(lista, id) ==
    IF lista = <<>> THEN 0
    ELSE (IF Head(lista)[1] = id THEN Head(lista)[2] ELSE 0) + CantidadPedida(Tail(lista), id)

\* Sum over the items of unit price * quantity, as an unbounded integer.
RECURSIVE Total(_)
Total(lista) ==
    IF lista = <<>> THEN 0
    ELSE PublicacionConId(Head(lista)[1]).precio * Head(lista)[2] + Total(Tail(lista))

\* A request that passes every check made before the prices are looked at:
\* the caller is a registered buyer, the list is not empty, its listing ids
\* exist and are pairwise different, all belong to one seller other than the
\* caller, and every quantity is positive and within the listing's stock.
PedidoValido(c, lista) ==
    /\ c \in DOMAIN usuarios
    /\ usuarios[c].rol \in {"Comprador", "Ambos"}
    /\ lista # <<>>
    /\ \A i, j \in 1..Len(lista) : i # j => lista[i][1] # lista[j][1]
    /\ \A i \in 1..Len(lista) :
         /\ \E p \in Rango(publicaciones) : p.id_publicacion = lista[i][1]
         /\ PublicacionConId(lista[i][1]).id_publicador = PublicacionConId(lista[1][1]).id_publicador
         /\ PublicacionConId(lista[i][1]).id_publicador # c
         /\ lista[i][2] > 0
         /\ lista[i][2] <= PublicacionConId(lista[i][1]).stock

\* C8: whenever generar_orden_compra returns Ok, every listing's stock is
\* lowered by exactly the quantity the list asks of it (by nothing when the
\* list does not name it), that quantity was within the stock, and nothing
\* else of the listings changes; and no listing's stock is below zero in any
\* reachable state.
C8_Stock ==
    /\ \A i \in 1..Len(publicaciones) : publicaciones[i].stock \in 0..U32_MAX
    /\ \A c \in Principals, lista \in Listas, dinero \in Fondos :
         LET r == Compra(c, lista, dinero)
         IN  r.res = "Ok" =>
               /\ Len(r.publicaciones) = Len(publicaciones)
               /\ \A i \in 1..Len(publicaciones) :
                    LET q == CantidadPedida(lista, publicaciones[i].id_publicacion)
                    IN  /\ q <= publicaciones[i].stock
                        /\ r.publicaciones[i] =
                             [publicaciones[i] EXCEPT !.stock = publicaciones[i].stock - q]

\* An order was just created and took the whole stock of one listing while
\* another listing kept its stock.
C8_Witness ==
    /\ ret.op = "generar_orden_compra" /\ ret.res = "Ok"
    /\ \E i, j \in 1..Len(publicaciones) :
         /\ publicaciones[i].stock = 0
         /\ publicaciones[j].stock = MaxCant

\* C9: whenever generar_orden_compra returns Ok, the amount of the order it
\* created is the sum over the items of (price of the listing with that id)
\* * quantity, and the funds given are at least that sum; and a request that
\* passes the checks of the order, whose sum fits in u32 and exceeds the
\* funds, returns DineroInsuficiente.
C9_Monto ==
    \A c \in Principals, lista \in Listas, dinero \in Fondos :
        LET r == Compra(c, lista, dinero)
        IN  /\ r.res = "Ok" =>
                 /\ Len(r.ordenes) = Len(ordenes) + 1
                 /\ r.ordenes[Len(r.ordenes)].monto = Total(lista)
                 /\ dinero >= Total(lista)
            /\ (PedidoValido(c, lista) /\ Total(lista) <= U32_MAX /\ dinero < Total(lista)) =>
                 r.res = "DineroInsuficiente"

\* An order of two items was created whose amount is the sum of the two
\* prices, the largest amount u32 holds.
C9_Witness ==
    /\ ret.op = "generar_orden_compra" /\ ret.res = "Ok"
    /\ ordenes # <<>>
    /\ Len(ordenes[Len(ordenes)].lista_productos) = 2
    /\ ordenes[Len(ordenes)].monto = U32_MAX

\* C10: a request that passes the checks of the order and whose sum of
\* price * quantity does not fit in u32 (one product overflows, or the
\* running total does) returns FueraDeRango whatever the funds, also funds
\* below the wrapped total, and creates no order and changes no stock (nor
\* anything else).
C10_FueraDeRango ==
    \A c \in Principals, lista \in Listas, dinero \in Fondos :
        LET r == Compra(c, lista, dinero)
        IN  (PedidoValido(c, lista) /\ Total(lista) > U32_MAX) =>
               /\ r.res = "FueraDeRango"
               /\ r.ordenes = ordenes
               /\ r.publicaciones = publicaciones
               /\ r.usuarios = usuarios
               /\ r.proximo = proximo_id_orden

\* A request was just answered FueraDeRango, in a state where the caller has
\* a valid request with one overflowing product whose wrapped value exceeds
\* the funds, and a valid request whose products fit and whose total does not.
C10_Witness ==
    /\ ret.op = "generar_orden_compra" /\ ret.res = "FueraDeRango"
    /\ \E lista \in Listas, dinero \in Fondos :
         /\ PedidoValido(ret.caller, lista)
         /\ Len(lista) = 1
         /\ Total(lista) > U32_MAX
         /\ dinero < Total(lista) % (U32_MAX + 1)
    /\ \E lista \in Listas :
         /\ PedidoValido(ret.caller, lista)
         /\ Len(lista) = 2
         /\ Total(<<lista[1]>>) <= U32_MAX
         /\ Total(<<lista[2]>>) <= U32_MAX
         /\ Total(lista) > U32_MAX

------------------------------------------------------------------------------
(* Failed purchases: C11 - C15 *)

\* The errors of the checks generar_orden_compra makes before it writes.
ErroresDeValidacion ==
    {"UsuarioNoExiste", "UsuarioNoEsComprador", "CompraSinItems", "PublicacionNoValida",
     "NoPuedeComprarPublicacionPropia", "PublicacionRepetida", "NoPuedeComprarCero",
     "VendedorDistinto", "StockInsuficiente", "FueraDeRango", "DineroInsuficiente"}

\* C11: a generar_orden_compra that returns one of the validation errors
\* leaves the whole state as it was: the listings and their stock, the
\* orders, every user's record (so every user's order ids), the three
\* counters and the products; also for a list whose first items are valid.
C11_SinCambios ==
    [][(ret'.op = "generar_orden_compra" /\ ret'.res \in ErroresDeValidacion) =>
         UNCHANGED <<usuarios, publicaciones, productos, ordenes,
                     proximo_id_publicacion, proximo_id_producto, proximo_id_orden>>]_vars

\* A purchase was just refused for insufficient funds, in a state where the
\* caller has a request of two items that passes the checks of the order and
\* is refused for its price.
C11_Witness ==
    /\ ret.op = "generar_orden_compra" /\ ret.res = "DineroInsuficiente"
    /\ \E lista \in Listas, dinero \in Fondos :
         /\ Len(lista) = 2
         /\ PedidoValido(ret.caller, lista)
         /\ Compra(ret.caller, lista, dinero).res = "DineroInsuficiente"

\* C12 as stated: when proximo_id_orden is at its maximum and
\* generar_orden_compra is called with a list that passes the validation of
\* the order and of the price (here every list the callers send does), the
\* call returns the error of the exhausted ids (PublicacionesLleno) and
\* leaves the state as it was: no stock is taken, no order is appended, no
\* user's order ids change.
C12_Original ==
    [][(/\ ret'.op = "generar_orden_compra"
        /\ proximo_id_orden = U128_MAX
        /\ \A lista \in EnvLleno.listas :
              /\ PedidoValido(ret'.caller, lista)
              /\ validar_precio(publicaciones, lista, U32_MAX).res = "Ok") =>
         /\ ret'.res = "PublicacionesLleno"
         /\ UNCHANGED <<usuarios, publicaciones, ordenes, proximo_id_orden>>]_vars

\* The caller is a registered buyer and item i of the list names a listing
\* the caller published.
EsComprador(c) == c \in DOMAIN usuarios /\ usuarios[c].rol \in {"Comprador", "Ambos"}
EsPropia(c, lista, i) ==
    \E p \in Rango(publicaciones) : p.id_publicacion = lista[i][1] /\ p.id_publicador = c
ContienePropia(c, lista) == \E i \in 1..Len(lista) : EsPropia(c, lista, i)

\* Items 1..k-1 of the list pass the checks of validar_orden for the seller
\* of the first item, and item k is not a repetition and asks for a positive
\* quantity.
LlegaHasta(lista, k) ==
    /\ \A i, j \in 1..k : i # j => lista[i][1] # lista[j][1]
    /\ \A i \in 1..k : lista[i][2] > 0
    /\ \A i \in 1..(k - 1) :
         /\ \E p \in Rango(publicaciones) : p.id_publicacion = lista[i][1]
         /\ PublicacionConId(lista[i][1]).id_publicador = PublicacionConId(lista[1][1]).id_publicador
         /\ lista[i][2] <= PublicacionConId(lista[i][1]).stock

\* C13 as stated: a generar_orden_compra by a registered buyer whose list
\* names, at any position, a listing the caller published returns
\* NoPuedeComprarPublicacionPropia whatever the other items are.
C13_Original ==
    \A c \in Principals, lista \in Listas, dinero \in Fondos :
        (EsComprador(c) /\ ContienePropia(c, lista)) =>
            Compra(c, lista, dinero).res = "NoPuedeComprarPublicacionPropia"

\* C13 amended: such a call never succeeds and changes nothing.  It returns
\* NoPuedeComprarPublicacionPropia when the FIRST item names a listing of the
\* caller; PublicacionNoValida when the first item names no listing; and
\* when the first item names a listing of another seller, the first error of
\* validar_orden, which is VendedorDistinto at the caller's own listing
\* unless an earlier item, a repetition or a zero quantity fails before.
C13_PropiaPrimero ==
    \A c \in Principals, lista \in Listas, dinero \in Fondos :
        (EsComprador(c) /\ ContienePropia(c, lista)) =>
            LET r == Compra(c, lista, dinero)
                k == CHOOSE i \in 1..Len(lista) :
                        EsPropia(c, lista, i) /\ \A j \in 1..(i - 1) : ~EsPropia(c, lista, j)
            IN  /\ r.usuarios = usuarios /\ r.publicaciones = publicaciones
                /\ r.ordenes = ordenes /\ r.proximo = proximo_id_orden
                /\ IF k = 1 THEN r.res = "NoPuedeComprarPublicacionPropia"
                   ELSE IF Posicion(publicaciones, lista[1][1]) = 0
                        THEN r.res = "PublicacionNoValida"
                   ELSE IF LlegaHasta(lista, k) THEN r.res = "VendedorDistinto"
                   ELSE r.res \in {"PublicacionRepetida", "NoPuedeComprarCero",
                                   "PublicacionNoValida", "VendedorDistinto",
                                   "StockInsuficiente"}

\* A buyer who also sells was just answered VendedorDistinto, in a state
\* where that is the answer to a list of another seller's listing followed
\* by the caller's own.
C13_Witness ==
    /\ ret.op = "generar_orden_compra" /\ ret.res = "VendedorDistinto"
    /\ EsComprador(ret.caller)
    /\ \E lista \in Listas :
         /\ Len(lista) = 2
         /\ ~EsPropia(ret.caller, lista, 1) /\ EsPropia(ret.caller, lista, 2)
         /\ Compra(ret.caller, lista, U32_MAX).res = "VendedorDistinto"

\* A request that passes every check but the one of the single seller: the
\* caller is a registered buyer, the listing ids exist and are pairwise
\* different, the quantities are positive and within the stock, the first
\* listing is not the caller's, and some listing is of another seller than
\* the first.
PedidoMezclado(c, lista) ==
    /\ EsComprador(c)
    /\ lista # <<>>
    /\ \A i, j \in 1..Len(lista) : i # j => lista[i][1] # lista[j][1]
    /\ \A i \in 1..Len(lista) :
         /\ \E p \in Rango(publicaciones) : p.id_publicacion = lista[i][1]
         /\ lista[i][2] > 0
         /\ lista[i][2] <= PublicacionConId(lista[i][1]).stock
    /\ PublicacionConId(lista[1][1]).id_publicador # c
    /\ \E i \in 1..Len(lista) :
         PublicacionConId(lista[i][1]).id_publicador # PublicacionConId(lista[1][1]).id_publicador

\* C14: every stored order has a buyer different from its seller; whenever
\* generar_orden_compra returns Ok, every listing the list names belongs to
\* the seller recorded in the new order, who is not the caller; and a
\* request that mixes listings of two sellers (and passes the other checks)
\* returns VendedorDistinto and creates nothing.
C14_UnVendedor ==
    /\ \A k \in 1..Len(ordenes) : ordenes[k].id_comprador # ordenes[k].id_vendedor
    /\ \A c \in Principals, lista \in Listas, dinero \in Fondos :
         LET r == Compra(c, lista, dinero)
             nueva == r.ordenes[Len(r.ordenes)]
         IN  /\ r.res = "Ok" =>
                  /\ Len(r.ordenes) = Len(ordenes) + 1
                  /\ nueva.id_comprador = c
                  /\ nueva.id_vendedor # c
                  /\ \A i \in 1..Len(lista) :
                       /\ \E p \in Rango(publicaciones) : p.id_publicacion = lista[i][1]
                       /\ PublicacionConId(lista[i][1]).id_publicador = nueva.id_vendedor
             /\ PedidoMezclado(c, lista) =>
                  /\ r.res = "VendedorDistinto"
                  /\ r.ordenes = ordenes /\ r.publicaciones = publicaciones
                  /\ r.usuarios = usuarios /\ r.proximo = proximo_id_orden

\* With an order stored, a buyer who owns no listing was just answered
\* VendedorDistinto and has a request mixing the listings of two sellers.
C14_Witness ==
    /\ ret.op = "generar_orden_compra" /\ ret.res = "VendedorDistinto"
    /\ ordenes # <<>>
    /\ \E lista \in Listas :
         /\ PedidoMezclado(ret.caller, lista)
         /\ ~ContienePropia(ret.caller, lista)

\* What the checks of validar_orden say of item i alone, for the seller of
\* the first item: a repetition of an earlier id, a zero quantity, an id with
\* no listing, a listing of another seller, a quantity above the stock.
FallaItem(lista, i) ==
    IF \E j \in 1..(i - 1) : lista[j][1] = lista[i][1] THEN "PublicacionRepetida"
    ELSE IF lista[i][2] = 0 THEN "NoPuedeComprarCero"
    ELSE IF \A p \in Rango(publicaciones) : p.id_publicacion # lista[i][1]
         THEN "PublicacionNoValida"
    ELSE IF PublicacionConId(lista[i][1]).id_publicador # PublicacionConId(lista[1][1]).id_publicador
         THEN "VendedorDistinto"
    ELSE IF lista[i][2] > PublicacionConId(lista[i][1]).stock THEN "StockInsuficiente"
    ELSE "Ok"

\* The answer the pipeline of generar_orden_compra gives: the error of the
\* first step that fails, the items being looked at in the order of the list.
Esperado(c, lista, dinero) ==
    IF c \notin DOMAIN usuarios THEN "UsuarioNoExiste"
    ELSE IF usuarios[c].rol = "Vendedor" THEN "UsuarioNoEsComprador"
    ELSE IF lista = <<>> THEN "CompraSinItems"
    ELSE IF \A p \in Rango(publicaciones) : p.id_publicacion # lista[1][1]
         THEN "PublicacionNoValida"
    ELSE IF PublicacionConId(lista[1][1]).id_publicador = c
         THEN "NoPuedeComprarPublicacionPropia"
    ELSE IF \E i \in 1..Len(lista) : FallaItem(lista, i) # "Ok"
         THEN LET k == CHOOSE i \in 1..Len(lista) :
                          /\ FallaItem(lista, i) # "Ok"
                          /\ \A j \in 1..(i - 1) : FallaItem(lista, j) = "Ok"
              IN  FallaItem(lista, k)
    ELSE IF Total(lista) > U32_MAX THEN "FueraDeRango"
    ELSE IF dinero < Total(lista) THEN "DineroInsuficiente"
    ELSE IF proximo_id_orden = U128_MAX THEN "PublicacionesLleno"
    ELSE "Ok"

\* C15: generar_orden_compra returns the error of the first failing step, in
\* the order: caller not registered, caller not a buyer, empty list, first
\* item's listing unknown, first item's seller is the caller, validation of
\* all the items of the order, overflow of the price, insufficient funds; so
\* every item is validated before any price is looked at, and the overflow
\* of every item comes before the comparison with the funds.
C15_PrimerError ==
    \A c \in Principals, lista \in Listas, dinero \in Fondos :
        Compra(c, lista, dinero).res = Esperado(c, lista, dinero)

\* A request was just answered NoPuedeComprarCero, in a state where the
\* caller has a list of two items whose first item overflows the price and
\* whose second item asks for nothing, and that list gets that answer.
C15_Witness ==
    /\ ret.op = "generar_orden_compra" /\ ret.res = "NoPuedeComprarCero"
    /\ \E lista \in Listas, dinero \in Fondos :
         /\ Len(lista) = 2
         /\ PedidoValido(ret.caller, <<lista[1]>>)
         /\ Total(<<lista[1]>>) > U32_MAX
         /\ lista[2][1] # lista[1][1] /\ lista[2][2] = 0
         /\ Compra(ret.caller, lista, dinero).res = "NoPuedeComprarCero"

------------------------------------------------------------------------------
(* Users and listings: C16 - C20 (SpecAlta) *)

\* C16: agregar_rol by a registered user returns RolYaEnUso and keeps the
\* record when the current role is the requested one or is Ambos; otherwise
\* (Comprador + Vendedor, Vendedor + Comprador, Comprador + Ambos, Vendedor +
\* Ambos) it returns Ok and the role becomes Ambos, the rest of the record and
\* the other users being kept; by an account that is not registered it
\* returns UsuarioNoExiste and registers nothing.
C16_TablaDeRoles ==
    \A c \in Principals, rol \in Roles :
        LET r == _agregar_rol(usuarios, rol, c)
        IN  IF c \notin DOMAIN usuarios
            THEN r.res = "UsuarioNoExiste" /\ r.usuarios = usuarios
            ELSE IF usuarios[c].rol = rol \/ usuarios[c].rol = "Ambos"
            THEN r.res = "RolYaEnUso" /\ r.usuarios = usuarios
            ELSE r.res = "Ok" /\ r.usuarios = [usuarios EXCEPT ![c].rol = "Ambos"]

\* A user who holds both roles asked for a role and was answered RolYaEnUso.
C16_Witness ==
    /\ ret.op = "agregar_rol" /\ ret.res = "RolYaEnUso"
    /\ ret.caller \in DOMAIN usuarios
    /\ usuarios[ret.caller].rol = "Ambos"

\* C17: once _es_vendedor answers Ok(true) for an account it does so in every
\* later state, and likewise _es_comprador: no message takes away a role.
C17_Monotonia ==
    [][\A p \in Principals :
         /\ _es_vendedor(usuarios, p) = "Ok(true)" => _es_vendedor(usuarios', p) = "Ok(true)"
         /\ _es_comprador(usuarios, p) = "Ok(true)" => _es_comprador(usuarios', p) = "Ok(true)"]_vars

\* agregar_rol has just widened the role of a user who owns a listing.
C17_Witness ==
    /\ ret.op = "agregar_rol" /\ ret.res = "Ok"
    /\ usuarios[ret.caller].rol = "Ambos"
    /\ usuarios[ret.caller].publicaciones # <<>>

\* C18: registrar_usuario by an account that has a record returns
\* UsuarioYaRegistrado and keeps every record as it is (role, listing ids and
\* order ids, whatever role is given); by a new account it returns Ok and
\* adds a record with the given role and no listing ids and no order ids,
\* the other records being kept; and an account that is registered stays
\* registered in every later state.
C18_Registro ==
    /\ [](\A c \in Principals, rol \in Roles :
            LET r == _registrar_usuario(usuarios, rol, c)
            IN  IF c \in DOMAIN usuarios
                THEN r.res = "UsuarioYaRegistrado" /\ r.usuarios = usuarios
                ELSE /\ r.res = "Ok"
                     /\ DOMAIN r.usuarios = DOMAIN usuarios \cup {c}
                     /\ r.usuarios[c] = [rol |-> rol, publicaciones |-> <<>>, ordenes |-> <<>>]
                     /\ \A p \in DOMAIN usuarios : r.usuarios[p] = usuarios[p])
    /\ [][/\ DOMAIN usuarios \subseteq DOMAIN usuarios'
           /\ (ret'.op = "registrar_usuario" /\ ret'.caller \in DOMAIN usuarios) =>
                 (ret'.res = "UsuarioYaRegistrado" /\ usuarios' = usuarios)]_vars

\* A seller with a listing and an order tried to register again and was
\* answered UsuarioYaRegistrado.
C18_Witness ==
    /\ ret.op = "registrar_usuario" /\ ret.res = "UsuarioYaRegistrado"
    /\ usuarios[ret.caller].publicaciones # <<>>
    /\ usuarios[ret.caller].ordenes # <<>>

\* The values of ErrorSistema.
ErrorSistema ==
    {"UsuarioYaRegistrado", "UsuarioNoExiste", "RolYaEnUso", "ProductosLleno",
     "UsuarioNoEsVendedor", "UsuarioNoEsComprador", "ProductoInvalido", "PublicacionesLleno",
     "CompraSinItems", "PublicacionNoValida", "StockInsuficiente", "VendedorDistinto",
     "IdDeOrdenNoValida", "PublicacionRepetida", "NoPuedeComprarCero",
     "NoPuedeComprarPublicacionPropia", "OperacionNoValida", "CancelacionYaSolicitada",
     "DineroInsuficiente", "FueraDeRango", "OrdenCancelada"}

\* C19 as stated: crear_publicacion by an account that is not registered
\* returns an error of ErrorSistema for every product id, price and stock
\* (also an existing product and a positive stock), never aborts, creates no
\* listing and allocates no listing id.
C19_Original ==
    [][(ret'.op = "crear_publicacion" /\ ret'.caller \notin DOMAIN usuarios) =>
         /\ ret'.res \in ErrorSistema
         /\ UNCHANGED <<publicaciones, proximo_id_publicacion>>]_vars

\* C20: crear_publicacion by a registered account returns
\* UsuarioNoEsVendedor when the caller is only a buyer; else ProductoInvalido
\* when the product id is not below proximo_id_producto; else
\* StockInsuficiente when the stock is 0; each of these keeps the listings,
\* the listing counter and the users as they are.  Otherwise (the listing
\* ids not being exhausted) it returns Ok, appends exactly one listing with
\* the next id and the given product, price and stock, published by the
\* caller, and appends that id to the listing ids of the caller.
C20_CrearPublicacion ==
    \A c \in DOMAIN usuarios, id_producto \in IdsProducto, precio \in Precios, stock \in Stocks :
        LET r == _crear_publicacion(usuarios, publicaciones, proximo_id_producto,
                                    proximo_id_publicacion, id_producto, precio, stock, c)
            sin_cambios == /\ r.publicaciones = publicaciones
                           /\ r.proximo = proximo_id_publicacion
                           /\ r.usuarios = usuarios
        IN  IF usuarios[c].rol = "Comprador"
            THEN r.res = "UsuarioNoEsVendedor" /\ sin_cambios
            ELSE IF id_producto >= proximo_id_producto
            THEN r.res = "ProductoInvalido" /\ sin_cambios
            ELSE IF stock = 0
            THEN r.res = "StockInsuficiente" /\ sin_cambios
            ELSE proximo_id_publicacion < U128_MAX =>
                   /\ r.res = "Ok"
                   /\ r.proximo = proximo_id_publicacion + 1
                   /\ r.publicaciones = Append(publicaciones,
                          [id_publicacion |-> proximo_id_publicacion,
                           id_producto |-> id_producto, id_publicador |-> c,
                           precio |-> precio, stock |-> stock, activa |-> TRUE])
                   /\ r.usuarios = [usuarios EXCEPT ![c].publicaciones =
                                       Append(@, proximo_id_publicacion)]

\* A seller who already has a listing has just created a second one, and a
\* product id that does not exist is at hand.
C20_Witness ==
    /\ ret.op = "crear_publicacion" /\ ret.res = "Ok"
    /\ Len(usuarios[ret.caller].publicaciones) = 2
    /\ Len(publicaciones) = 2
    /\ \E id_producto \in IdsProducto : id_producto >= proximo_id_producto

------------------------------------------------------------------------------
(* Products and id counters: C21 - C22 *)

\* C21: nuevo_producto returns UsuarioNoExiste for an account that is not
\* registered and UsuarioNoEsVendedor for a registered buyer, storing no
\* product and keeping proximo_id_producto; for a seller (Vendedor or Ambos)
\* it returns the id proximo_id_producto had before the call, stores the
\* product under that id and adds one to the counter.
C21_NuevoProducto ==
    \A c \in Principals :
        LET r == nuevo_producto(usuarios, productos, proximo_id_producto, c)
        IN  IF c \notin DOMAIN usuarios
            THEN /\ r.res = "UsuarioNoExiste"
                 /\ r.productos = productos /\ r.proximo = proximo_id_producto
            ELSE IF usuarios[c].rol = "Comprador"
            THEN /\ r.res = "UsuarioNoEsVendedor"
                 /\ r.productos = productos /\ r.proximo = proximo_id_producto
            ELSE proximo_id_producto < U128_MAX =>
                   /\ r.res = "Ok"
                   /\ r.id = proximo_id_producto
                   /\ r.productos = productos \cup {proximo_id_producto}
                   /\ r.proximo = proximo_id_producto + 1

\* A seller has just created the first product, in a state where a
\* registered buyer and an account that is not registered are at hand.
C21_Witness ==
    /\ ret.op = "nuevo_producto" /\ ret.res = "Ok"
    /\ ret.id = 0 /\ productos = {0} /\ proximo_id_producto = 1
    /\ \E c \in DOMAIN usuarios : usuarios[c].rol = "Comprador"
    /\ Principals \ DOMAIN usuarios # {}

\* C22: none of the three id counters ever decreases; and when a counter is
\* at its maximum the allocation fails (ProductosLleno for a product,
\* PublicacionesLleno for a listing or an order), the counter keeps its
\* value and no product, listing or order is added.
C22_Contadores ==
    /\ [](/\ proximo_id_producto = U128_MAX =>
              \A c \in EnvLleno.productores :
                  LET r == nuevo_producto(usuarios, productos, proximo_id_producto, c)
                  IN  /\ r.res = "ProductosLleno"
                      /\ r.proximo = proximo_id_producto /\ r.productos = productos
          /\ proximo_id_publicacion = U128_MAX =>
              \A p \in EnvLleno.publicaciones :
                  LET r == _crear_publicacion(usuarios, publicaciones, proximo_id_producto,
                                              proximo_id_publicacion, p[2], p[3], p[4], p[1])
                  IN  /\ r.res = "PublicacionesLleno"
                      /\ r.proximo = proximo_id_publicacion
                      /\ r.publicaciones = publicaciones /\ r.usuarios = usuarios
          /\ proximo_id_orden = U128_MAX =>
              \A c \in EnvLleno.compradores, lista \in EnvLleno.listas, dinero \in EnvLleno.fondos :
                  LET r == Compra(c, lista, dinero)
                  IN  /\ r.res # "Ok"
                      /\ PedidoValido(c, lista) => r.res = "PublicacionesLleno"
                      /\ r.proximo = proximo_id_orden
                      /\ r.ordenes = ordenes /\ r.usuarios = usuarios)
    /\ [][/\ proximo_id_producto' >= proximo_id_producto
           /\ proximo_id_publicacion' >= proximo_id_publicacion
           /\ proximo_id_orden' >= proximo_id_orden]_vars

\* The three counters are at their maximum and a purchase was just refused
\* for want of an order id.
C22_Witness ==
    /\ proximo_id_producto = U128_MAX
    /\ proximo_id_publicacion = U128_MAX
    /\ proximo_id_orden = U128_MAX
    /\ ret.op = "generar_orden_compra" /\ ret.res = "PublicacionesLleno"

------------------------------------------------------------------------------
(* Order ids outside the created range: C23 *)

\* C23: for every order id that is not the id of a created order (id >=
\* proximo_id_orden), ids above the range of usize included,
\* marcar_orden_como_enviada, marcar_orden_como_recibida and cancelar_orden
\* return IdDeOrdenNoValida and change no order.
C23_Original ==
    [][(/\ ret'.op \in {"marcar_orden_como_enviada", "marcar_orden_como_recibida",
                        "cancelar_orden"}
        /\ ret'.id >= proximo_id_orden)
       => (ret'.res = "IdDeOrdenNoValida" /\ ordenes' = ordenes)]_vars

------------------------------------------------------------------------------
(* The created order and the validation of its items: C24, C27, C28, C30 *)

\* The last order of a sequence of orders.
Ultima(ords) == ords[Len(ords)]

\* C24: a generar_orden_compra that returns Ok appends exactly one order to
\* ordenes: Pendiente, with no cancellation request, the caller as buyer, the
\* publisher of the first item's listing as seller, the validated total as
\* monto and the value proximo_id_orden had before the call as id; it
\* appends that id once to the buyer's ordenes and once to the seller's,
\* changes no other user, and returns a value equal to the stored order.
C24_OrdenCreada ==
    \A c \in Principals, lista \in Listas, dinero \in Fondos :
        LET r == Compra(c, lista, dinero)
            o == Ultima(r.ordenes)
            v == PublicacionConId(lista[1][1]).id_publicador
        IN  r.res = "Ok" =>
              /\ r.ordenes = Append(ordenes, o)
              /\ o.estado = "Pendiente"
              /\ o.solicitud_cancelacion = NoAccount
              /\ o.id_comprador = c
              /\ o.id_vendedor = v
              /\ o.monto = Total(lista)
              /\ o.id_orden_compra = proximo_id_orden
              /\ v # c
              /\ DOMAIN r.usuarios = DOMAIN usuarios
              /\ \A u \in DOMAIN usuarios :
                    r.usuarios[u] =
                        IF u \in {c, v}
                        THEN [usuarios[u] EXCEPT !.ordenes = Append(@, proximo_id_orden)]
                        ELSE usuarios[u]
              /\ r.valor = <<o>>

\* A purchase has just created an order of two items: the returned value is
\* the stored order, and its id is once in the buyer's and once in the
\* seller's ordenes.
C24_Witness ==
    /\ ret.op = "generar_orden_compra" /\ ret.res = "Ok"
    /\ Len(ordenes) = 1
    /\ ret.valor = <<ordenes[1]>>
    /\ ordenes[1].id_comprador = ret.caller
    /\ Len(ordenes[1].lista_productos) = 2
    /\ usuarios[ordenes[1].id_comprador].ordenes = <<0>>
    /\ usuarios[ordenes[1].id_vendedor].ordenes = <<0>>

\* What the checks of validar_orden say of item i alone, for a given seller.
FallaItemDe(lista, i, vendedor) ==
    IF \E j \in 1..(i - 1) : lista[j][1] = lista[i][1] THEN "PublicacionRepetida"
    ELSE IF lista[i][2] = 0 THEN "NoPuedeComprarCero"
    ELSE IF \A p \in Rango(publicaciones) : p.id_publicacion # lista[i][1]
         THEN "PublicacionNoValida"
    ELSE IF PublicacionConId(lista[i][1]).id_publicador # vendedor THEN "VendedorDistinto"
    ELSE IF lista[i][2] > PublicacionConId(lista[i][1]).stock THEN "StockInsuficiente"
    ELSE "Ok"

\* An earlier item fails for its seller or its stock and a later one is a
\* repetition or asks for zero units.
TardeYTemprano(lista, vendedor) ==
    /\ Len(lista) = 2
    /\ FallaItemDe(lista, 1, vendedor) \in {"VendedorDistinto", "StockInsuficiente"}
    /\ FallaItemDe(lista, 2, vendedor) \in {"PublicacionRepetida", "NoPuedeComprarCero"}

\* C27: validar_orden looks at the items in the order of the list and, for
\* each item, checks in this order: repeated listing id, zero quantity,
\* listing exists, listing belongs to the seller of the order, stock >=
\* quantity; it returns the first violation of this single pass, so a
\* seller or stock violation of an earlier item comes before a repetition
\* or a zero quantity of a later item.
C27_UnaPasada ==
    \A lista \in Listas, vendedor \in Principals :
        LET res == validar_orden(publicaciones, lista, vendedor)
            fallan == {i \in 1..Len(lista) : FallaItemDe(lista, i, vendedor) # "Ok"}
        IN  /\ fallan = {} => res = "Ok"
            /\ fallan # {} =>
                  res = FallaItemDe(lista, CHOOSE i \in fallan : \A j \in fallan : i <= j,
                                    vendedor)
            /\ TardeYTemprano(lista, vendedor) => res = FallaItemDe(lista, 1, vendedor)

\* A purchase was refused for the stock of its first item although a later
\* item of a list that fails so repeats an id or asks for zero units.
C27_Witness ==
    /\ ret.op = "generar_orden_compra" /\ ret.res = "StockInsuficiente"
    /\ \E lista \in Listas :
         /\ Len(lista) = 2
         /\ lista[1][1] \in {p.id_publicacion : p \in Rango(publicaciones)}
         /\ LET v == PublicacionConId(lista[1][1]).id_publicador
            IN  /\ v # ret.caller
                /\ TardeYTemprano(lista, v)
                /\ FallaItemDe(lista, 1, v) = "StockInsuficiente"
                /\ \A dinero \in Fondos : Compra(ret.caller, lista, dinero).res = "StockInsuficiente"

\* C28: the listing at position i of publicaciones has id i, the order at
\* position i of ordenes has id i, proximo_id_publicacion is the number of
\* listings and proximo_id_orden the number of orders; so for every id that
\* the search by id finds, the listing at position id is the same listing,
\* and an id within usize that the search does not find has no position.
C28_IdEsPosicion ==
    /\ \A i \in 1..Len(publicaciones) : publicaciones[i].id_publicacion = i - 1
    /\ \A i \in 1..Len(ordenes) : ordenes[i].id_orden_compra = i - 1
    /\ proximo_id_publicacion = Len(publicaciones)
    /\ proximo_id_orden = Len(ordenes)
    /\ \A id \in 0..U128_MAX :
         /\ Posicion(publicaciones, id) # 0 =>
               /\ AsUsize(id) < Len(publicaciones)
               /\ Get(publicaciones, AsUsize(id)) = publicaciones[Posicion(publicaciones, id)]
         /\ (Posicion(publicaciones, id) = 0 /\ id <= USIZE_MAX) =>
               AsUsize(id) >= Len(publicaciones)

\* Two listings and an order of both exist: the second listing and its
\* position are the ones a purchase has just used.
C28_Witness ==
    /\ Len(publicaciones) = 2 /\ Len(ordenes) = 1
    /\ ret.op = "generar_orden_compra" /\ ret.res = "Ok"
    /\ Len(ordenes[1].lista_productos) = 2
    /\ proximo_id_publicacion = 2 /\ proximo_id_orden = 1

\* C30: the items of a created order are, in the order and the length of
\* the request, the pairs (id_producto of the listing the i-th item names,
\* i-th quantity): product ids, not listing ids, so two listings of one
\* product give two entries with the same product id.
C30_ItemsDeLaOrden ==
    \A c \in Principals, lista \in Listas, dinero \in Fondos :
        LET r == Compra(c, lista, dinero)
        IN  r.res = "Ok" =>
              /\ Len(Ultima(r.ordenes).lista_productos) = Len(lista)
              /\ \A i \in 1..Len(lista) :
                    Ultima(r.ordenes).lista_productos[i] =
                        <<PublicacionConId(lista[i][1]).id_producto, lista[i][2]>>

\* The created order has two entries of the same product, the second one
\* bought from the listing with id 1.
C30_Witness ==
    /\ ret.op = "generar_orden_compra" /\ ret.res = "Ok"
    /\ Len(ordenes) = 1 /\ Len(publicaciones) = 2
    /\ publicaciones[1].id_producto = publicaciones[2].id_producto
    /\ publicaciones[1].stock < MaxCant /\ publicaciones[2].stock < MaxCant
    /\ Len(ordenes[1].lista_productos) = 2
    /\ ordenes[1].lista_productos[1][1] = publicaciones[1].id_producto
    /\ ordenes[1].lista_productos[2][1] = publicaciones[1].id_producto

------------------------------------------------------------------------------
(* Stored products: C29 *)

\* C29: a product is stored under id p if and only if p is below
\* proximo_id_producto, which is what existe_producto compares; and no
\* stored product is ever removed.
C29_ProductosBajoContador ==
    /\ [](\A p \in 0..U128_MAX :
             (p \in productos) <=> existe_producto(proximo_id_producto, p))
    /\ [][productos \subseteq productos']_vars

\* The third product has just been stored: ids 0, 1 and 2 are present and
\* id 3 is neither stored nor below the counter.
C29_Witness ==
    /\ ret.op = "nuevo_producto" /\ ret.res = "Ok" /\ ret.id = 2
    /\ productos = {0, 1, 2}
    /\ proximo_id_producto = 3
    /\ ~existe_producto(proximo_id_producto, 3)

------------------------------------------------------------------------------
(* Queries: C25 - C26 (SpecConsultas) *)

\* The orders in which c is buyer or seller and the listings c published,
\* in the order of the stored sequences.
OrdenesDe(c) == SelectSeq(ordenes, LAMBDA o : c \in Partes(o))
PublicacionesDe(c) == SelectSeq(publicaciones, LAMBDA p : p.id_publicador = c)

\* What get_publicaciones_propias owes to c: [res, valor].
PropiasEsperadas(c) ==
    IF c \notin DOMAIN usuarios THEN [res |-> "UsuarioNoExiste", valor |-> <<>>]
    ELSE IF usuarios[c].rol = "Comprador" THEN [res |-> "UsuarioNoEsVendedor", valor |-> <<>>]
    ELSE [res |-> "Ok", valor |-> PublicacionesDe(c)]

C26_Roles ==
    LET Tabla(res, c, si, no) ==
            /\ res \in {"Ok(true)", "Ok(false)", "UsuarioNoExiste"}
            /\ res = "Ok(true)" <=> (c \in DOMAIN usuarios /\ usuarios[c].rol \in {si, "Ambos"})
            /\ res = "Ok(false)" <=> (c \in DOMAIN usuarios /\ usuarios[c].rol = no)
            /\ res = "UsuarioNoExiste" <=> c \notin DOMAIN usuarios
    IN  /\ \A c \in Principals :
             /\ Tabla(_es_vendedor(usuarios, c), c, "Vendedor", "Comprador")
             /\ Tabla(_es_comprador(usuarios, c), c, "Comprador", "Vendedor")
        /\ ret.op = "es_vendedor" => Tabla(ret.res, ret.caller, "Vendedor", "Comprador")
        /\ ret.op = "es_comprador" => Tabla(ret.res, ret.caller, "Comprador", "Vendedor")

\* es_comprador has just answered Ok(false) to a Vendedor, in a state with
\* an Ambos and an account that is not registered.
C26_Witness ==
    /\ ret.op = "es_comprador" /\ ret.res = "Ok(false)"
    /\ usuarios[ret.caller].rol = "Vendedor"
    /\ \E c \in DOMAIN usuarios : usuarios[c].rol = "Ambos"
    /\ Principals \ DOMAIN usuarios # {}

------------------------------------------------------------------------------
(* Cancellation requests: C31 - C33 (SpecOrdenes) *)

C32_Original ==
    [][\A k \in 1..Len(ordenes) :
         (ordenes[k].estado # "Cancelado" /\ ordenes'[k].estado = "Cancelado") =>
           /\ ret'.op = "cancelar_orden"
           /\ ret'.caller \in Partes(ordenes[k])
           /\ ordenes[k].solicitud_cancelacion \in Partes(ordenes[k]) \ {ret'.caller}]_vars

\* C33: a recorded cancellation request does not stop the life of the
\* order: with a request on record marcar_orden_como_enviada by the seller
\* of a Pendiente order and marcar_orden_como_recibida by the buyer of an
\* Enviado order return Ok, change the status and keep the request; and an
\* order that is Recibido never becomes Cancelado.
C33_SolicitudNoBloquea ==
    [][/\ (/\ SobreOrden("marcar_orden_como_enviada")
            /\ Antes.solicitud_cancelacion # NoAccount
            /\ Antes.estado = "Pendiente"
            /\ ret'.caller = Antes.id_vendedor) =>
             (ret'.res = "Ok" /\ Despues = [Antes EXCEPT !.estado = "Enviado"])
       /\ (/\ SobreOrden("marcar_orden_como_recibida")
            /\ Antes.solicitud_cancelacion # NoAccount
            /\ Antes.estado = "Enviado"
            /\ ret'.caller = Antes.id_comprador) =>
             (ret'.res = "Ok" /\ Despues = [Antes EXCEPT !.estado = "Recibido"])
       /\ \A k \in 1..Len(ordenes) :
            ordenes[k].estado = "Recibido" => ordenes'[k].estado = "Recibido"]_vars

\* An order that carried the buyer's request all along was shipped and
\* received, and the seller's cancellation was then refused.
C33_Witness ==
    /\ ret.op = "cancelar_orden" /\ ret.res = "OperacionNoValida"
    /\ ret.id < Len(ordenes)
    /\ Get(ordenes, ret.id).estado = "Recibido"
    /\ Get(ordenes, ret.id).solicitud_cancelacion = Get(ordenes, ret.id).id_comprador
    /\ ret.caller = Get(ordenes, ret.id).id_vendedor

------------------------------------------------------------------------------
(* Stock accounting: C34 *)

\* The stock left in the first n listings of product p published by s, and
\* the units of p recorded in the orders whose seller is s.
RECURSIVE StockActual(_, _, _, _)
StockActual(pubs, n, s, p) ==
    IF n = 0 THEN 0
    ELSE (IF pubs[n].id_publicador = s /\ pubs[n].id_producto = p THEN pubs[n].stock ELSE 0)
         + StockActual(pubs, n - 1, s, p)

RECURSIVE UnidadesDe(_, _)
UnidadesDe(items, p) ==
    IF items = <<>> THEN 0
    ELSE (IF Head(items)[1] = p THEN Head(items)[2] ELSE 0) + UnidadesDe(Tail(items), p)

RECURSIVE UnidadesVendidas(_, _, _)
UnidadesVendidas(ords, s, p) ==
    IF ords = <<>> THEN 0
    ELSE (IF Head(ords).id_vendedor = s THEN UnidadesDe(Head(ords).lista_productos, p) ELSE 0)
         + UnidadesVendidas(Tail(ords), s, p)

\* C34: for every seller s and product p the initial stocks of the listings
\* of p by s add up to their current stocks plus the units of p recorded in
\* the orders whose seller is s, whatever the status of the orders.  A
\* listing enters with its initial stock, so this is: no step changes the
\* sum of the stocks of the listings that exist before it and of the units
\* recorded in the orders.
C34_Original ==
    [][\A s \in Principals, p \in 0..U128_MAX :
         StockActual(publicaciones', Len(publicaciones), s, p)
             + UnidadesVendidas(ordenes', s, p)
         = StockActual(publicaciones, Len(publicaciones), s, p)
             + UnidadesVendidas(ordenes, s, p)]_vars

------------------------------------------------------------------------------
(* What later steps leave alone: C35, C36, C39 (SpecOrdenes) *)

\* C35: no step removes a listing, changes the id, the product, the seller
\* or the price of a listing, or raises its stock; and cancelar_orden, both
\* when it records a request and when it cancels the order, changes no
\* listing, so the units of a cancelled order do not go back to the stock.
C35_Publicaciones ==
    [][/\ Len(publicaciones') >= Len(publicaciones)
       /\ \A i \in 1..Len(publicaciones) :
            /\ publicaciones'[i] = [publicaciones[i] EXCEPT !.stock = publicaciones'[i].stock]
            /\ publicaciones'[i].stock <= publicaciones[i].stock
       /\ ret'.op = "cancelar_orden" => publicaciones' = publicaciones]_vars

\* The order has just been cancelled and the unit it bought is still
\* missing from the listing.
C35_Witness ==
    /\ ret.op = "cancelar_orden" /\ ret.res = "Ok"
    /\ ret.id < Len(ordenes)
    /\ Get(ordenes, ret.id).estado = "Cancelado"
    /\ Get(ordenes, ret.id).lista_productos = << <<0, 1>> >>
    /\ Len(publicaciones) = 1
    /\ publicaciones[1].stock = MaxCant - 1

\* C36: the id, the buyer, the seller, the items and the amount of an order
\* never change after its creation, and a recorded cancellation request is
\* never reset to none.
C36_OrdenFija ==
    [][\A k \in 1..Len(ordenes) :
         /\ Len(ordenes') >= k
         /\ ordenes'[k] = [ordenes[k] EXCEPT
                              !.estado = ordenes'[k].estado,
                              !.solicitud_cancelacion = ordenes'[k].solicitud_cancelacion]
         /\ ordenes[k].solicitud_cancelacion # NoAccount =>
               ordenes'[k].solicitud_cancelacion # NoAccount]_vars

\* The order was cancelled by the second call and still carries the first
\* request, its buyer, seller, items and amount being those of its creation.
C36_Witness ==
    /\ ret.op = "cancelar_orden" /\ ret.res = "Ok"
    /\ ret.id < Len(ordenes)
    /\ Get(ordenes, ret.id).estado = "Cancelado"
    /\ Get(ordenes, ret.id).solicitud_cancelacion \notin {NoAccount, ret.caller}
    /\ Get(ordenes, ret.id) =
         [NuevaOrden("alice", << <<0, 1>> >>, 0, "bob", 1) EXCEPT
            !.estado = "Cancelado",
            !.solicitud_cancelacion = Get(ordenes, ret.id).solicitud_cancelacion]

\* C39: marcar_orden_como_enviada, marcar_orden_como_recibida and
\* cancelar_orden called with order id k, whether they return Ok or an
\* error, change nothing but the status or the cancellation request of the
\* order with id k, and that only when they return Ok: every other order,
\* the users, the products, the listings and the three counters keep their
\* values.
C39_Original ==
    [][ret'.op \in {"marcar_orden_como_enviada", "marcar_orden_como_recibida",
                    "cancelar_orden"} =>
         /\ UNCHANGED <<usuarios, productos, publicaciones,
                        proximo_id_publicacion, proximo_id_producto, proximo_id_orden>>
         /\ Len(ordenes') = Len(ordenes)
         /\ \A k \in 1..Len(ordenes) :
              IF ordenes[k].id_orden_compra = ret'.id /\ ret'.res = "Ok"
              THEN ordenes'[k] = [ordenes[k] EXCEPT
                                    !.estado = ordenes'[k].estado,
                                    !.solicitud_cancelacion = ordenes'[k].solicitud_cancelacion]
              ELSE ordenes'[k] = ordenes[k]]_vars

------------------------------------------------------------------------------
(* References between users, listings and orders: C37 - C38 *)

Registrado(c, roles) == c \in DOMAIN usuarios /\ usuarios[c].rol \in roles

\* C37: every listing names a product below proximo_id_producto and a
\* publisher who is registered and is now Vendedor or Ambos; every order
\* names a buyer who is registered and is now Comprador or Ambos and a
\* seller who is registered and is now Vendedor or Ambos; every id in a
\* user's publicaciones is the id of a stored listing and every id in a
\* user's ordenes is the id of a stored order.
C37_Referencias ==
    /\ \A p \in Rango(publicaciones) :
         /\ p.id_producto < proximo_id_producto
         /\ Registrado(p.id_publicador, {"Vendedor", "Ambos"})
    /\ \A o \in Rango(ordenes) :
         /\ Registrado(o.id_comprador, {"Comprador", "Ambos"})
         /\ Registrado(o.id_vendedor, {"Vendedor", "Ambos"})
    /\ \A u \in DOMAIN usuarios :
         /\ Rango(usuarios[u].publicaciones)
               \subseteq {p.id_publicacion : p \in Rango(publicaciones)}
         /\ Rango(usuarios[u].ordenes)
               \subseteq {o.id_orden_compra : o \in Rango(ordenes)}

\* The buyer of the stored order has just taken a second role and the
\* order's seller has a listing on record.
C37_Witness ==
    /\ ret.op = "agregar_rol" /\ ret.res = "Ok"
    /\ Len(ordenes) = 1 /\ publicaciones # <<>>
    /\ ret.caller = ordenes[1].id_comprador
    /\ usuarios[ret.caller].rol = "Ambos"
    /\ usuarios[ret.caller].ordenes = <<0>>
    /\ usuarios[ordenes[1].id_vendedor].publicaciones # <<>>

\* How many times x occurs in the sequence s.
Veces(s, x) == Cardinality({i \in 1..Len(s) : s[i] = x})

\* C38: a user's publicaciones is the list of the ids of the listings that
\* user published, in the order of creation and without repetition, so
\* get_publicaciones_propias returns the listings those ids name; the id of
\* an order occurs once in its buyer's ordenes, once in its seller's, and
\* in no other user's.
C38_Reciprocas ==
    /\ \A u \in DOMAIN usuarios :
         /\ usuarios[u].publicaciones =
               [i \in 1..Len(PublicacionesDe(u)) |-> PublicacionesDe(u)[i].id_publicacion]
         /\ \A id \in Rango(usuarios[u].publicaciones) :
               Veces(usuarios[u].publicaciones, id) = 1
         /\ _get_publicaciones_propias(usuarios, publicaciones, u).res = "Ok" =>
               _get_publicaciones_propias(usuarios, publicaciones, u).valor =
                   [i \in 1..Len(usuarios[u].publicaciones) |->
                        PublicacionConId(usuarios[u].publicaciones[i])]
    /\ \A o \in Rango(ordenes), u \in DOMAIN usuarios :
         Veces(usuarios[u].ordenes, o.id_orden_compra) = IF u \in Partes(o) THEN 1 ELSE 0
    /\ \A o \in Rango(ordenes) : o.id_comprador # o.id_vendedor

\* Two sellers published one listing each and two orders exist; the caller
\* who has just listed her own listing is in both orders and another user
\* is in one only.
C38_Witness ==
    /\ ret.op = "get_publicaciones_propias" /\ ret.res = "Ok" /\ Len(ret.valor) = 1
    /\ Len(publicaciones) = 2 /\ Len(ordenes) = 2
    /\ publicaciones[1].id_publicador # publicaciones[2].id_publicador
    /\ usuarios[ret.caller].ordenes = <<0, 1>>
    /\ \E u \in DOMAIN usuarios : usuarios[u].ordenes = <<1>>

------------------------------------------------------------------------------
(* The decrement of the stock: C40 (SpecCompra) *)

\* The results of the calls of actualizar_stock that
\* actualizar_stock_de_orden makes from item i on, which it ignores.
RECURSIVE ResultadosDeStock(_, _, _)
ResultadosDeStock(pubs, lista, i) ==
    IF i > Len(lista) THEN {}
    ELSE LET posicion == Posicion(pubs, lista[i][1])
         IN  IF posicion = 0 THEN {"PublicacionNoValida"} \cup ResultadosDeStock(pubs, lista, i + 1)
             ELSE LET r == actualizar_stock(pubs[posicion], lista[i][2])
                  IN  {r.res} \cup ResultadosDeStock([pubs EXCEPT ![posicion] = r.publi],
                                                     lista, i + 1)

\* C40: actualizar_stock with cant > stock returns an error and leaves the
\* stock as it was (the u32 does not wrap around), and with cant <= stock
\* sets the stock to stock - cant; and in every generar_orden_compra that
\* gets to actualizar_stock_de_orden every decrement returns Ok, so the
\* result it ignores is never an error.
C40_DescuentoDeStock ==
    /\ \A publi \in Rango(publicaciones), cant \in 0..U32_MAX :
         LET r == actualizar_stock(publi, cant)
         IN  IF cant > publi.stock
             THEN r.res # "Ok" /\ r.publi = publi
             ELSE r.res = "Ok" /\ r.publi = [publi EXCEPT !.stock = publi.stock - cant]
    /\ \A c \in Principals, lista \in Listas, dinero \in Fondos :
         Compra(c, lista, dinero).res \in {"Ok", "PublicacionesLleno"} =>
             ResultadosDeStock(publicaciones, lista, 1) = {"Ok"}

\* A purchase of two listings has just taken the last units of one of
\* them, which now refuses any positive quantity.
C40_Witness ==
    /\ ret.op = "generar_orden_compra" /\ ret.res = "Ok"
    /\ Len(ordenes) = 1 /\ Len(ordenes[1].lista_productos) = 2
    /\ \E publi \in Rango(publicaciones) :
         /\ publi.stock = 0
         /\ actualizar_stock(publi, 1).res = "PublicacionesLleno"
    /\ \E publi \in Rango(publicaciones) : publi.stock = MaxCant - 1

====
